---- MODULE Spec2Model ----
(***************************************************************************)
(* Model of the home-finance-centre bank statement importer                *)
(* (app/importers/statement_pdf.py): line extraction, block segmentation,  *)
(* block-to-record building and the pipeline driver.                       *)
(*                                                                         *)
(* Text is modelled character by character: a Python str is a sequence of  *)
(* one-character strings, and every regular expression of the source is    *)
(* an operator that scans such a sequence the way the regex engine does.   *)
(* Optional[T] is a sequence of length 0 (None) or 1 (a value).            *)
(***************************************************************************)
EXTENDS Integers, Sequences, FiniteSets, TLC

(***************************************************************************)
(* Bounds of the model.                                                    *)
(***************************************************************************)
\* longest document, in raw text lines
MaxLines == 3
\* raw text lines the extractor gets from one page
LinesPerPage == 2
\* calls of extract_transactions_from_pdf made in one behaviour
MaxCalls == 2
\* the largest primary key the database gives a transaction
MaxTx == 2
\* width in bits of a stored INTEGER, scaled down from the 64 of SQLite
PennyBits == 2

(***************************************************************************)
(* Characters and Python's str helpers.                                    *)
(***************************************************************************)
None == <<>>
Some(x) == <<x>>

DigitSeq == <<"0", "1", "2", "3", "4", "5", "6", "7", "8", "9">>
UpperSeq == <<"A", "B", "C", "D", "E", "F", "G", "H", "I", "J", "K", "L", "M",
              "N", "O", "P", "Q", "R", "S", "T", "U", "V", "W", "X", "Y", "Z">>
LowerSeq == <<"a", "b", "c", "d", "e", "f", "g", "h", "i", "j", "k", "l", "m",
              "n", "o", "p", "q", "r", "s", "t", "u", "v", "w", "x", "y", "z">>

Range(s) == {s[i] : i \in DOMAIN s}

DigitChars == Range(DigitSeq)
UpperChars == Range(UpperSeq)
LowerChars == Range(LowerSeq)

\* regex class \d
IsDigit(c) == c \in DigitChars
IsUpper(c) == c \in UpperChars
IsLower(c) == c \in LowerChars
\* regex class [A-Za-z]
IsLetter(c) == IsUpper(c) \/ IsLower(c)
\* regex class \s (the whitespace that can occur inside one text line)
IsSpace(c) == c \in {" ", "\t"}
\* regex class \w
IsWordChar(c) == IsLetter(c) \/ IsDigit(c) \/ c = "_"

IndexIn(seq, c) == CHOOSE i \in DOMAIN seq : seq[i] = c

\* str.upper() and str.lower(), one character
UpperOf == [c \in LowerChars |-> UpperSeq[IndexIn(LowerSeq, c)]]
LowerOf == [c \in UpperChars |-> LowerSeq[IndexIn(UpperSeq, c)]]
UpperChar(c) == IF IsLower(c) THEN UpperOf[c] ELSE c
LowerChar(c) == IF IsUpper(c) THEN LowerOf[c] ELSE c

\* str.upper()
Upper(s) == [i \in DOMAIN s |-> UpperChar(s[i])]

\* str.capitalize(): first character upper-cased, the others lower-cased
Capitalize(s) == [i \in DOMAIN s |-> IF i = 1 THEN UpperChar(s[i]) ELSE LowerChar(s[i])]

\* s[i:] of Python with a 1-based i
From(s, i) == SubSeq(s, i, Len(s))

\* str.startswith(p)
StartsWith(s, p) == Len(s) >= Len(p) /\ SubSeq(s, 1, Len(p)) = p

\* str.strip()
LStripAt(s) == IF \E i \in DOMAIN s : ~IsSpace(s[i])
               THEN CHOOSE i \in DOMAIN s : ~IsSpace(s[i]) /\ \A j \in 1..(i - 1) : IsSpace(s[j])
               ELSE Len(s) + 1
RStripAt(s) == IF \E i \in DOMAIN s : ~IsSpace(s[i])
               THEN CHOOSE i \in DOMAIN s : ~IsSpace(s[i]) /\ \A j \in (i + 1)..Len(s) : IsSpace(s[j])
               ELSE 0
Strip(s) == SubSeq(s, LStripAt(s), RStripAt(s))

\* sep.join(parts)
RECURSIVE JoinWith(_, _)
JoinWith(parts, sep) ==
    IF parts = <<>> THEN <<>>
    ELSE IF Len(parts) = 1 THEN parts[1]
    ELSE parts[1] \o sep \o JoinWith(Tail(parts), sep)

\* int(s) for a string of decimal digits
RECURSIVE IntOf(_)
IntOf(s) == IF s = <<>> THEN 0
            ELSE 10 * IntOf(SubSeq(s, 1, Len(s) - 1)) + (IndexIn(DigitSeq, s[Len(s)]) - 1)

\* the decimal digits of n, most significant first
RECURSIVE Digits(_)
Digits(n) == IF n < 10 THEN <<DigitSeq[n + 1]>>
             ELSE Digits(n \div 10) \o <<DigitSeq[(n % 10) + 1]>>

\* f"{n:0{w}d}" for n >= 0
RECURSIVE ZeroPad(_, _)
ZeroPad(ds, w) == IF Len(ds) >= w THEN ds ELSE ZeroPad(<<"0">> \o ds, w)
Fmt(n, w) == ZeroPad(Digits(n), w)

(***************************************************************************)
(* DATE_LINE_RE  ^(\d{2})\s([A-Za-z]{3})\s(\d{2})\s+(.+)$                  *)
(***************************************************************************)
\* where the group "rest" starts: \s+ is greedy but gives back one
\* character when it would leave nothing for .+
RestStart(line) ==
    IF \E i \in 11..Len(line) : ~IsSpace(line[i])
    THEN CHOOSE i \in 11..Len(line) : ~IsSpace(line[i]) /\ \A j \in 11..(i - 1) : IsSpace(line[j])
    ELSE Len(line)

DateLineMatches(line) ==
    /\ Len(line) >= 11
    /\ IsDigit(line[1]) /\ IsDigit(line[2])
    /\ IsSpace(line[3])
    /\ IsLetter(line[4]) /\ IsLetter(line[5]) /\ IsLetter(line[6])
    /\ IsSpace(line[7])
    /\ IsDigit(line[8]) /\ IsDigit(line[9])
    /\ IsSpace(line[10])

\* DATE_LINE_RE.match(line): None, or the groups day, mon, yy and rest
DATE_LINE_RE(line) ==
    IF DateLineMatches(line)
    THEN Some([day |-> SubSeq(line, 1, 2), mon |-> SubSeq(line, 4, 6),
               yy |-> SubSeq(line, 8, 9), rest |-> From(line, RestStart(line))])
    ELSE None

(***************************************************************************)
(* MONEY_RE  \d{1,3}(?:,\d{3})*\.\d{2}|\d+\.\d{2}                          *)
(***************************************************************************)
CharAt(s, i) == IF i \in DOMAIN s THEN s[i] ELSE ""

\* \.\d{2} at position i
FractionAt(s, i) == CharAt(s, i) = "." /\ IsDigit(CharAt(s, i + 1)) /\ IsDigit(CharAt(s, i + 2))

\* k digits at position i
DigitsAt(s, i, k) == \A j \in i..(i + k - 1) : IsDigit(CharAt(s, j))

\* the number of digits at position i, counted up to max
RECURSIVE DigitRun(_, _, _)
DigitRun(s, i, max) ==
    IF max = 0 \/ ~IsDigit(CharAt(s, i)) THEN 0 ELSE 1 + DigitRun(s, i + 1, max - 1)

\* the number of groups ,\d{3} at position i
RECURSIVE GroupRun(_, _)
GroupRun(s, i) ==
    IF CharAt(s, i) = "," /\ DigitsAt(s, i + 1, 3) THEN 1 + GroupRun(s, i + 4) ELSE 0

\* the positions just after a match of the first alternative started at i,
\* over every number of leading digits and of groups the engine may try
Alt1Ends(s, i) ==
    UNION {{i + k + 4 * r + 3 : r \in {g \in 0..GroupRun(s, i + k) : FractionAt(s, i + k + 4 * g)}} :
             k \in 1..DigitRun(s, i, 3)}

\* the positions just after a match of the second alternative started at i
Alt2Ends(s, i) ==
    {i + k + 3 : k \in {n \in 1..DigitRun(s, i, Len(s)) : FractionAt(s, i + n)}}

Max(S) == CHOOSE x \in S : \A y \in S : y <= x
Min(S) == CHOOSE x \in S : \A y \in S : x <= y

\* the end of the match the engine reports at i (0: no match at i): the
\* first alternative is preferred, and in each the quantifiers are greedy
MoneyEndAt(s, i) ==
    IF ~IsDigit(CharAt(s, i)) THEN 0
    ELSE LET ends1 == Alt1Ends(s, i)
             ends2 == Alt2Ends(s, i)
         IN  IF ends1 # {} THEN Max(ends1)
             ELSE IF ends2 # {} THEN Max(ends2)
             ELSE 0

\* [m.group("num") for m in MONEY_RE.finditer(text)], scanning from i
RECURSIVE MoneyTokensFrom(_, _)
MoneyTokensFrom(s, i) ==
    IF i > Len(s) THEN <<>>
    ELSE LET e == MoneyEndAt(s, i)
         IN  IF e = 0 THEN MoneyTokensFrom(s, i + 1)
             ELSE <<SubSeq(s, i, e - 1)>> \o MoneyTokensFrom(s, e)

MoneyTokens(s) == MoneyTokensFrom(s, 1)

(***************************************************************************)
(* _month_to_number, _yy_to_yyyy, _format_date_ddmmyyyy                    *)
(***************************************************************************)
\* the keys of the dict months, in the order of their values 1..12
months == << <<"J", "a", "n">>, <<"F", "e", "b">>, <<"M", "a", "r">>, <<"A", "p", "r">>,
             <<"M", "a", "y">>, <<"J", "u", "n">>, <<"J", "u", "l">>, <<"A", "u", "g">>,
             <<"S", "e", "p">>, <<"O", "c", "t">>, <<"N", "o", "v">>, <<"D", "e", "c">> >>

\* a lookup of the month token as it is written
MonthsGetExact(mon) ==
    IF \E i \in DOMAIN months : months[i] = mon
    THEN Some(CHOOSE i \in DOMAIN months : months[i] = mon)
    ELSE None

\* months.get(mon.capitalize()): None or the month number
MonthsGet(mon) ==
    LET key == Capitalize(mon)
    IN  IF \E i \in DOMAIN months : months[i] = key
        THEN Some(CHOOSE i \in DOMAIN months : months[i] = key)
        ELSE None

\* the outcome of a call: a returned value or a raised exception
Ok(v) == [raised |-> FALSE, value |-> v]
Raise(t, m) == [raised |-> TRUE, type |-> t, msg |-> m]

\* a lookup that answers 0 for an unknown month instead of raising
MonthOrZero(mon) ==
    LET m == MonthsGet(mon) IN IF m = None THEN Ok(0) ELSE Ok(m[1])

_month_to_number(mon) ==
    LET m == MonthsGet(mon)
    IN  IF m = None \/ m[1] = 0
        THEN Raise("ValueError", "Unknown month token")
        ELSE Ok(m[1])

\* a year expansion into the twentieth century
YearIn1900s(yy) == 1900 + IntOf(yy)

_yy_to_yyyy(yy) == 2000 + IntOf(yy)

_format_date_ddmmyyyy(day, mon, yy) ==
    LET m == _month_to_number(mon)
    IN  IF m.raised THEN m
        ELSE Ok(Fmt(IntOf(day), 2) \o <<"/">> \o Fmt(m.value, 2)
                \o <<"/">> \o Fmt(_yy_to_yyyy(yy), 4))

(***************************************************************************)
(* NO_DATE_START_RE  ^\s*(CR|DD|VIS|TFR|BP)\b                              *)
(***************************************************************************)
Starters == { <<"C", "R">>, <<"D", "D">>, <<"V", "I", "S">>, <<"T", "F", "R">>, <<"B", "P">> }

\* a separator test that wants a space after the prefix
SpaceAt(s, i) == IsSpace(CharAt(s, i))

\* \b after a word character that ends at position i - 1
BoundaryAt(s, i) == ~IsWordChar(CharAt(s, i))

NO_DATE_START_RE(line) ==
    \E t \in Starters :
        /\ StartsWith(From(line, LStripAt(line)), t)
        /\ BoundaryAt(line, LStripAt(line) + Len(t))

(***************************************************************************)
(* The statement boilerplate test of the segmenter and of the builder.     *)
(***************************************************************************)
\* re.sub(r"[^A-Z]", "", text.upper())
LettersOnlyUpper(text) == SelectSeq(Upper(text), IsUpper)

BALANCECARRIEDFORWARD ==
    <<"B", "A", "L", "A", "N", "C", "E", "C", "A", "R", "R", "I", "E", "D",
      "F", "O", "R", "W", "A", "R", "D">>
BALANCEBROUGHTFORWARD ==
    <<"B", "A", "L", "A", "N", "C", "E", "B", "R", "O", "U", "G", "H", "T",
      "F", "O", "R", "W", "A", "R", "D">>

\* a test that knows only the brought-forward rows
IsBroughtForwardOnly(text) == StartsWith(LettersOnlyUpper(text), BALANCEBROUGHTFORWARD)

IsBoilerplate(text) ==
    LET normline == LettersOnlyUpper(text)
    IN  \/ StartsWith(normline, BALANCECARRIEDFORWARD)
        \/ StartsWith(normline, BALANCEBROUGHTFORWARD)

(***************************************************************************)
(* _strip_trailing_money, _clean_amount_token, _extract_amount_and_balance *)
(***************************************************************************)
\* re.sub(rf"\s{MONEY_RE.pattern}\s*$", "", out): the leftmost whitespace
\* character followed by a money token (either alternative) and then only
\* whitespace up to the end of the string is where the match starts
TrailingMoneyStarts(out) ==
    {p \in DOMAIN out :
        /\ IsSpace(out[p])
        /\ \E e \in Alt1Ends(out, p + 1) \cup Alt2Ends(out, p + 1) :
              \A j \in e..Len(out) : IsSpace(out[j])}

SubTrailingMoney(out) ==
    IF TrailingMoneyStarts(out) = {} THEN out
    ELSE SubSeq(out, 1, Min(TrailingMoneyStarts(out)) - 1)

RECURSIVE StripLoop(_, _)
StripLoop(out, n) == IF n = 0 THEN out ELSE StripLoop(Strip(SubTrailingMoney(out)), n - 1)

_strip_trailing_money(text, n) == StripLoop(Strip(text), n)

\* token.replace(",", "")
IsNotComma(c) == c # ","
_clean_amount_token(token) == SelectSeq(token, IsNotComma)

\* a selection that takes the last token for the amount
LastTokenAsAmount(block_text) ==
    LET nums == MoneyTokens(block_text) IN
    IF nums = <<>> THEN <<None, None>>
    ELSE <<Some(_clean_amount_token(nums[Len(nums)])), None>>

\* the pair (amount, balance), each None or a string
_extract_amount_and_balance(block_text) ==
    LET nums == MoneyTokens(block_text) IN
    IF nums = <<>> THEN <<None, None>>
    ELSE IF Len(nums) = 1 THEN <<Some(_clean_amount_token(nums[Len(nums)])), None>>
    ELSE <<Some(_clean_amount_token(nums[Len(nums) - 1])),
           Some(_clean_amount_token(nums[Len(nums)]))>>

(***************************************************************************)
(* The inputs: the text lines a statement page can hold, the documents     *)
(* made of them and the file the caller names.                             *)
(***************************************************************************)
\* a dated credit with a comma-grouped amount and a balance: "02 Dec 25 CR S 1,000.00 1.00"
DatedCredit ==
    <<"0", "2", " ", "D", "e", "c", " ", "2", "5", " ", "C", "R", " ", "S",
      " ", "1", ",", "0", "0", "0", ".", "0", "0", " ", "1", ".", "0", "0">>
\* a same-day debit, indented by the text extraction: " VIS T 2.34 7.66"
IndentedDebit ==
    <<" ", "V", "I", "S", " ", "T", " ", "2", ".", "3", "4", " ", "7", ".",
      "6", "6">>
\* a running-balance row of the statement: "BALANCE CARRIED FORWARD 7.66"
CarriedForward ==
    <<"B", "A", "L", "A", "N", "C", "E", " ", "C", "A", "R", "R", "I", "E",
      "D", " ", "F", "O", "R", "W", "A", "R", "D", " ", "7", ".", "6", "6">>
\* a dated running-balance row: "03 DEC 25 Balance Brought Forward 7.66"
DatedBroughtForward ==
    <<"0", "3", " ", "D", "E", "C", " ", "2", "5", " ", "B", "a", "l", "a",
      "n", "c", "e", " ", "B", "r", "o", "u", "g", "h", "t", " ", "F", "o",
      "r", "w", "a", "r", "d", " ", "7", ".", "6", "6">>
\* a date line whose month is no month: "05 Abc 25 DD X 1.00"
UnknownMonth ==
    <<"0", "5", " ", "A", "b", "c", " ", "2", "5", " ", "D", "D", " ", "X",
      " ", "1", ".", "0", "0">>
\* a line that is both boilerplate and of the date-line shape: "06 Bal 25 ance carried forward"
BalDateLine ==
    <<"0", "6", " ", "B", "a", "l", " ", "2", "5", " ", "a", "n", "c", "e",
      " ", "c", "a", "r", "r", "i", "e", "d", " ", "f", "o", "r", "w", "a",
      "r", "d">>
\* a description line with a number that looks like money: "REF 0.50"
RefLine ==
    <<"R", "E", "F", " ", "0", ".", "5", "0">>
\* a line starting with CR not followed by a space, its amount glued on: "CR-X3.00"
HyphenCredit ==
    <<"C", "R", "-", "X", "3", ".", "0", "0">>
\* a same-day credit without a balance: "CR I 0.10"
PlainCredit ==
    <<"C", "R", " ", "I", " ", "0", ".", "1", "0">>
\* a dated line without any money token: "04 dec 25 DD N"
DatedNoMoney ==
    <<"0", "4", " ", "d", "e", "c", " ", "2", "5", " ", "D", "D", " ", "N">>

RawLines ==
    {DatedCredit, IndentedDebit, CarriedForward, DatedBroughtForward,
     UnknownMonth, BalDateLine, RefLine, HyphenCredit,
     PlainCredit, DatedNoMoney}

\* the lines of the documents that have a damaged page
PlainLines == {DatedCredit, IndentedDebit}

\* all sequences over S of length at most n
RECURSIVE SeqsUpTo(_, _)
SeqsUpTo(S, n) ==
    IF n = 0 THEN {<<>>}
    ELSE SeqsUpTo(S, n - 1) \cup
         {Append(q, e) : q \in {t \in SeqsUpTo(S, n - 1) : Len(t) = n - 1}, e \in S}

DotPdf ==
    <<".", "p", "d", "f">>
DotPdfUpper ==
    <<".", "P", "D", "F">>
DotCsv ==
    <<".", "c", "s", "v">>
Suffixes == {DotPdf, DotPdfUpper, DotCsv}

\* the number of pages of a document of n raw text lines
PagesOf(n) == (n + LinesPerPage - 1) \div LinesPerPage

\* the documents with a damaged page
DamagedFiles ==
    UNION {{[exists |-> TRUE, suffix |-> DotPdf, raw |-> r, damaged |-> d] :
              d \in 1..PagesOf(Len(r))} : r \in SeqsUpTo(PlainLines, MaxLines)}

\* The file the caller names: whether it exists, its suffix, its text and
\* the page (0: none) on which text extraction fails.  Every text is tried
\* under the suffix .pdf; a file of another suffix holds at most one line, a
\* file with a damaged page holds plain transactions, a missing file nothing.
Files ==
    [exists : {TRUE}, suffix : {DotPdf}, raw : SeqsUpTo(RawLines, MaxLines), damaged : {0}]
    \cup DamagedFiles
    \cup [exists : {TRUE}, suffix : {DotPdfUpper, DotCsv}, raw : SeqsUpTo(RawLines, 1), damaged : {0}]
    \cup [exists : {FALSE}, suffix : Suffixes, raw : {<<>>}, damaged : {0}]

\* the lines of the documents that are read more than once
RerunLines == {DatedCredit, IndentedDebit, CarriedForward, RefLine, PlainCredit, DatedNoMoney}

\* the files that are read more than once
RerunFiles ==
    [exists : {TRUE}, suffix : {DotPdf}, raw : SeqsUpTo(RerunLines, MaxLines), damaged : {0}]
    \cup DamagedFiles

(***************************************************************************)
(* _is_credit and _build_staging_row                                       *)
(***************************************************************************)
\* truthiness of a str, of an Optional[str] and of a dict
TruthyStr(t) == t # <<>>
TruthyOpt(o) == o # None /\ TruthyStr(o[1])
TruthyDict(d) == DOMAIN d # {}

\* dict.get(key)
Get(d, key) == IF key \in DOMAIN d THEN Some(d[key]) ELSE None

\* the dict {}
EmptyDict == [key \in {} |-> <<>>]

\* text.splitlines()[0] for a non-empty text
FirstLineOf(text) ==
    IF \E j \in DOMAIN text : text[j] = "\n"
    THEN SubSeq(text, 1, Min({j \in DOMAIN text : text[j] = "\n"}) - 1)
    ELSE text

CRSpace == <<"C", "R", " ">>

\* a credit test that knows only the undated form
IsCreditUndatedOnly(block_text) ==
    StartsWith(IF TruthyStr(block_text) THEN FirstLineOf(block_text) ELSE <<>>, CRSpace)

_is_credit(block_text) ==
    LET first_line == IF TruthyStr(block_text) THEN FirstLineOf(block_text) ELSE <<>>
        m == DATE_LINE_RE(first_line)
    IN  IF StartsWith(first_line, CRSpace) THEN TRUE
        ELSE IF m = None THEN FALSE
        ELSE StartsWith(Strip(m[1].rest), CRSpace)

\* an amount_out that formats a missing amount
AmountOutOfNone(amount, credit) ==
    IF credit /\ amount # None THEN amount[1]
    ELSE <<"-">> \o (IF amount = None THEN <<"N", "o", "n", "e">> ELSE amount[1])

\* amount_out of _build_staging_row
AmountOut(amount, credit) ==
    IF amount = None THEN <<>>
    ELSE IF credit THEN amount[1]
    ELSE <<"-">> \o amount[1]

\* a description that keeps the date prefix of the first line
FlatDescription(raw_lines) == _strip_trailing_money(JoinWith(raw_lines, <<" ">>), 2)

\* desc of _build_staging_row
Description(raw_lines) ==
    LET block_text_flat == JoinWith(raw_lines, <<" ">>)
        m == DATE_LINE_RE(raw_lines[1])
    IN  IF m # None
        THEN _strip_trailing_money(
                 Strip(JoinWith(<<Strip(m[1].rest)>> \o Tail(raw_lines), <<" ">>)), 2)
        ELSE _strip_trailing_money(block_text_flat, 2)

\* a builder without the guard
DropsNothing(desc) == FALSE

\* the second boilerplate guard, on the description
DropsBoilerplate(desc) == IsBoilerplate(desc)

\* a merchant guessed from the description
MerchantFromDescription(desc) == desc

\* merchant of _build_staging_row
Merchant(desc) == <<>>

_build_staging_row(block) ==
    LET block_text_multiline == JoinWith(block.raw_lines, <<"\n">>)
        block_text_flat == JoinWith(block.raw_lines, <<" ">>)
        amount == _extract_amount_and_balance(block_text_flat)[1]
        amount_out == AmountOut(amount, _is_credit(block_text_multiline))
        desc == Description(block.raw_lines)
    IN  IF DropsBoilerplate(desc) THEN EmptyDict
        ELSE [date |-> block.date_display,
              merchant |-> Merchant(desc),
              description |-> desc,
              amount |-> amount_out,
              primary |-> <<>>,
              balancing |-> <<>>]

\* a filter that forgets the amount
KeepsRowWithDate(row) == TruthyDict(row) /\ TruthyOpt(Get(row, "date"))

\* the filter of extract_transactions_from_pdf
KeepsRow(row) ==
    TruthyDict(row) /\ TruthyOpt(Get(row, "date")) /\ TruthyOpt(Get(row, "amount"))

\* rows.insert(0, row)
PrependRow(rs, row) == <<row>> \o rs

\* rows.append(row)
AppendRow(rs, row) == Append(rs, row)

(***************************************************************************)
(* The checks extract_transactions_from_pdf makes on the path.             *)
(***************************************************************************)
\* str.lower()
Lower(t) == [j \in DOMAIN t |-> LowerChar(t[j])]

\* the checks without the one on the suffix
PreconditionsExistsOnly(f) ==
    IF ~f.exists THEN Raise("FileNotFoundError", "PDF not found")
    ELSE Ok(TRUE)

Preconditions(f) ==
    IF ~f.exists THEN Raise("FileNotFoundError", "PDF not found")
    ELSE IF Lower(f.suffix) # DotPdf THEN Raise("ValueError", "Not a PDF file")
    ELSE Ok(TRUE)

(***************************************************************************)
(* The steps of _split_into_blocks.                                        *)
(***************************************************************************)
\* a block opened without the line that opens it
NewEmptyBlock(date, line) == [date_display |-> date, raw_lines |-> <<>>]

\* _TxBlock(date_display=date, raw_lines=[line])
NewBlock(date, line) == [date_display |-> date, raw_lines |-> <<line>>]

\* the open block is closed without being appended to blocks
EmitNothing(bs, cur) == bs

\* if current is not None: blocks.append(current)
Emit(bs, cur) == IF cur # None THEN Append(bs, cur[1]) ELSE bs

\* a last_date_display that outlives the call
StaleLastDate(old) == old

\* last_date_display when _split_into_blocks is entered
InitialLastDate(old) == None

\* a last_date_display that only the first date line sets
FirstDateOnly(old, d) == IF old = None THEN Some(d) ELSE old

\* last_date_display after a date line whose date formats to d
LastDateAfter(old, d) == Some(d)

\* a last_date_display that ends with the block a boilerplate line closes
ForgottenDate(last) == None

\* last_date_display after a boilerplate line: the branch does not assign it
KeptDate(last) == last

\* a continuation that is thrown away
DropLine(cur, line) == cur

\* if current is not None: current.raw_lines.append(line)
AppendLine(cur, line) ==
    IF cur # None THEN Some([cur[1] EXCEPT !.raw_lines = Append(@, line)]) ELSE cur

\* a segmenter without the no-date start rule
NeverStartsNoDateBlock(last, line) == FALSE

\* the test that opens a block on a line without a date
StartsNoDateBlock(last, line) == TruthyOpt(last) /\ NO_DATE_START_RE(line)

(***************************************************************************)
(* The state.                                                              *)
(***************************************************************************)
VARIABLES
    file,                \* the file at pdf_path: exists, suffix, raw text lines
    pc,                  \* where the call of extract_transactions_from_pdf is
    outcome,             \* Optional: None while running, then Ok(rows) or Raise(...)
    calls,               \* calls made so far
    docOpen,             \* the pdfplumber document is open
    opens,               \* times the document was opened in this call
    page,                \* pages consumed by _iter_pdf_lines
    lines,               \* the list lines
    i,                   \* lines consumed by the loop of _split_into_blocks
    blocks,              \* the list blocks
    current,             \* Optional[_TxBlock]
    last_date_display,   \* Optional[str]
    b,                   \* blocks consumed by the loop over blocks
    rows,                \* the list rows
    firstLine,           \* history: index in lines of each emitted block's first line
    currentFirst,        \* history: index in lines of the open block's first line
    rowBlock,            \* history: index in blocks of the block each row comes from
    history              \* history: what _split_into_blocks returned in each earlier call

\* The ledger database (app/models.py).  The timestamp of a transaction, which
\* no operation of the ledger reads, is left out.
VARIABLES
    transactions,        \* table transactions: rows [id, description]
    entries,             \* table entries: rows [id, transaction_id, account_id, amount_pennies]
    ret                  \* the last ledger operation: its name and the repr of what it returned, or what it raised

ledgerVars == <<transactions, entries, ret>>

VARIABLES
    accounts             \* table accounts: rows [id, name, type, is_active, added_by]

VARIABLES
    csv,                 \* the arguments of extract_transactions_from_csv: the file's table and the mapping
    rows_out             \* Optional: None before the call returns, then the list it returns

csvVars == <<csv, rows_out>>

VARIABLES
    self_rows,                \* BulkImportPage.rows
    self_primary_account_id,  \* BulkImportPage.primary_account_id, Optional
    commit_btn,               \* BulkImportPage.commit_btn is enabled
    self_table,               \* BulkImportPage.table: rows [date, merchant, description, amount, balancing]
    committing                \* Optional: the locals r, ok and the session of a running commit_to_db

qtVars == <<self_rows, self_primary_account_id, commit_btn, self_table, committing>>

VARIABLES
    tree,                \* BulkEntryWindow.tree: the rows of the staging table
    batch                \* _commit_ready_rows: the position of its loop, or None

tkVars == <<tree, batch>>

\* the state of the rest of the application
appVars == <<accounts, csvVars, qtVars, tkVars>>

pdfVars == <<file, pc, outcome, calls, docOpen, opens, page, lines, i, blocks, current,
             last_date_display, b, rows, firstLine, currentFirst, rowBlock, history>>

vars == <<pdfVars, ledgerVars, appVars>>

\* what no step of the importer changes: the file and the ledger
envVars == <<file, ledgerVars, appVars>>
readVars == <<docOpen, opens, page, lines>>
splitVars == <<i, blocks, current, last_date_display, firstLine, currentFirst>>
buildVars == <<b, rows, rowBlock>>

\* the number of pages of the document
NumPages(f) == PagesOf(Len(f.raw))

\* text.splitlines() of page p
PageLines(f, p) ==
    SubSeq(f.raw, (p - 1) * LinesPerPage + 1,
           IF p * LinesPerPage < Len(f.raw) THEN p * LinesPerPage ELSE Len(f.raw))

\* the lines _iter_pdf_lines yields for a page: stripped, the empty ones left out
YieldedLines(raw_lines) == SelectSeq([j \in DOMAIN raw_lines |-> Strip(raw_lines[j])], TruthyStr)

\* a with statement that leaves the document as it is
LeftAsItIs(open) == open

\* the document after the with statement of _iter_pdf_lines is left, by its
\* end or by an exception: closed
AfterWith(open) == FALSE

\* the empty database
InitTables ==
    /\ transactions = {}
    /\ entries = {}
    /\ ret = [op |-> "none", out |-> Ok("None")]
    /\ accounts = {}

\* no call of extract_transactions_from_csv
NoCsv == [df |-> <<>>, mapping |-> <<>>]
InitCsv == csv = NoCsv /\ rows_out = None

\* no BulkEntryWindow is open
NoWindow ==
    /\ tree = <<>>
    /\ batch = None

\* BulkImportPage.__init__: no rows, no primary account, an empty table and
\* a disabled commit button; commit_to_db is not running
InitPage ==
    /\ self_rows = <<>>
    /\ self_primary_account_id = None
    /\ commit_btn = FALSE
    /\ self_table = <<>>
    /\ committing = None

\* the importer before the first call, for the file f
InitPdf(f) ==
    /\ file = f
    /\ pc = "idle"
    /\ outcome = None
    /\ calls = 0
    /\ docOpen = FALSE
    /\ opens = 0
    /\ page = 0
    /\ lines = <<>>
    /\ i = 0
    /\ blocks = <<>>
    /\ current = None
    /\ last_date_display = None
    /\ b = 0
    /\ rows = <<>>
    /\ firstLine = <<>>
    /\ currentFirst = 0
    /\ rowBlock = <<>>
    /\ history = <<>>

\* the state before the first call, for the file f
InitFor(f) ==
    /\ InitPdf(f)
    /\ InitTables
    /\ InitCsv
    /\ InitPage
    /\ NoWindow

Init == \E f \in Files : InitFor(f)

InitRerun == \E f \in RerunFiles : InitFor(f)

(***************************************************************************)
(* extract_transactions_from_pdf, step by step.                            *)
(***************************************************************************)
\* extract_transactions_from_pdf(pdf_path) is entered: the two checks on the path
Enter ==
    /\ calls' = calls + 1
    /\ opens' = 0
    /\ IF Preconditions(file).raised
       THEN pc' = "raised" /\ outcome' = Some(Preconditions(file))
       ELSE pc' = "open" /\ outcome' = None
    /\ UNCHANGED <<envVars, docOpen, page, lines, splitVars, buildVars>>

\* the first call
Call ==
    /\ pc = "idle"
    /\ Enter
    /\ UNCHANGED history

\* a later call, on the same file
CallAgain ==
    /\ pc \in {"returned", "raised"}
    /\ calls < MaxCalls
    /\ Enter
    /\ history' = Append(history, IF pc = "returned" THEN Some(blocks) ELSE None)

\* list(_iter_pdf_lines(path)) starts: pdfplumber.open(pdf_path)
OpenDocument ==
    /\ pc = "open"
    /\ docOpen' = TRUE
    /\ opens' = opens + 1
    /\ page' = 0
    /\ lines' = <<>>
    /\ pc' = "read"
    /\ UNCHANGED <<envVars, outcome, calls, splitVars, buildVars, history>>

\* one iteration of the loop over pdf.pages
ReadPage ==
    /\ pc = "read"
    /\ page < NumPages(file)
    /\ file.damaged # page + 1
    /\ page' = page + 1
    /\ lines' = lines \o YieldedLines(PageLines(file, page + 1))
    /\ UNCHANGED <<envVars, pc, outcome, calls, docOpen, opens, splitVars, buildVars, history>>

\* page.extract_text() raises: the with statement closes the document
ExtractFails ==
    /\ pc = "read"
    /\ page < NumPages(file)
    /\ file.damaged = page + 1
    /\ docOpen' = AfterWith(docOpen)
    /\ pc' = "raised"
    /\ outcome' = Some(Raise("PdfError", "text extraction failed"))
    /\ UNCHANGED <<envVars, calls, opens, page, lines, splitVars, buildVars, history>>

\* the pages are exhausted: the with statement closes the document
CloseDocument ==
    /\ pc = "read"
    /\ page = NumPages(file)
    /\ docOpen' = AfterWith(docOpen)
    /\ pc' = "split_entry"
    /\ UNCHANGED <<envVars, outcome, calls, opens, page, lines, splitVars, buildVars, history>>

\* _split_into_blocks is entered
SplitEntry ==
    /\ pc = "split_entry"
    /\ blocks' = <<>>
    /\ current' = None
    /\ last_date_display' = InitialLastDate(last_date_display)
    /\ i' = 0
    /\ firstLine' = <<>>
    /\ currentFirst' = 0
    /\ pc' = "split"
    /\ UNCHANGED <<envVars, outcome, calls, readVars, buildVars, history>>

\* one iteration of the loop over lines
SplitLine ==
    /\ pc = "split"
    /\ i < Len(lines)
    /\ i' = i + 1
    /\ LET line == lines[i + 1]
           m_date == DATE_LINE_RE(line)
           formatted == _format_date_ddmmyyyy(m_date[1].day, m_date[1].mon, m_date[1].yy)
       IN  IF IsBoilerplate(line)
           THEN \* statement boilerplate
                /\ blocks' = Emit(blocks, current)
                /\ firstLine' = IF current # None THEN Append(firstLine, currentFirst) ELSE firstLine
                /\ current' = None
                /\ currentFirst' = 0
                /\ last_date_display' = KeptDate(last_date_display)
                /\ UNCHANGED <<pc, outcome>>
           ELSE IF m_date # None
           THEN \* a date line: close the open block, then format the date
                /\ blocks' = Emit(blocks, current)
                /\ firstLine' = IF current # None THEN Append(firstLine, currentFirst) ELSE firstLine
                /\ IF formatted.raised
                   THEN /\ pc' = "raised"
                        /\ outcome' = Some(formatted)
                        /\ UNCHANGED <<last_date_display, current, currentFirst>>
                   ELSE /\ last_date_display' = LastDateAfter(last_date_display, formatted.value)
                        /\ current' = Some(NewBlock(last_date_display'[1], line))
                        /\ currentFirst' = i + 1
                        /\ UNCHANGED <<pc, outcome>>
           ELSE IF StartsNoDateBlock(last_date_display, line)
           THEN \* a transaction starter without a date
                /\ blocks' = Emit(blocks, current)
                /\ firstLine' = IF current # None THEN Append(firstLine, currentFirst) ELSE firstLine
                /\ current' = Some(NewBlock(last_date_display[1], line))
                /\ currentFirst' = i + 1
                /\ UNCHANGED <<last_date_display, pc, outcome>>
           ELSE \* a continuation line, or noise before the first block
                /\ current' = AppendLine(current, line)
                /\ UNCHANGED <<blocks, firstLine, currentFirst, last_date_display, pc, outcome>>
    /\ UNCHANGED <<envVars, calls, readVars, buildVars, history>>

\* the loop over lines is over: the final flush, the return, and rows = []
SplitReturn ==
    /\ pc = "split"
    /\ i = Len(lines)
    /\ blocks' = Emit(blocks, current)
    /\ firstLine' = IF current # None THEN Append(firstLine, currentFirst) ELSE firstLine
    /\ UNCHANGED history
    /\ rows' = <<>>
    /\ rowBlock' = <<>>
    /\ b' = 0
    /\ pc' = "build"
    /\ UNCHANGED <<envVars, outcome, calls, readVars, i, current, last_date_display, currentFirst>>

\* one iteration of the loop over blocks
BuildRow ==
    /\ pc = "build"
    /\ b < Len(blocks)
    /\ b' = b + 1
    /\ LET row == _build_staging_row(blocks[b + 1])
       IN  IF KeepsRow(row)
           THEN rows' = AppendRow(rows, row) /\ rowBlock' = AppendRow(rowBlock, b + 1)
           ELSE UNCHANGED <<rows, rowBlock>>
    /\ UNCHANGED <<envVars, pc, outcome, calls, readVars, splitVars, history>>

\* return rows
Return ==
    /\ pc = "build"
    /\ b = Len(blocks)
    /\ pc' = "returned"
    /\ outcome' = Some(Ok(rows))
    /\ UNCHANGED <<envVars, calls, readVars, splitVars, buildVars, history>>

Next ==
    \/ Call
    \/ OpenDocument
    \/ ReadPage
    \/ ExtractFails
    \/ CloseDocument
    \/ SplitEntry
    \/ SplitLine
    \/ SplitReturn
    \/ BuildRow
    \/ Return

Spec == Init /\ [][Next]_vars

\* the same file read up to MaxCalls times
NextRerun == Next \/ CallAgain

SpecRerun == InitRerun /\ [][NextRerun]_vars

\* SplitLine and BuildRow are enabled exactly under their guards: each is
\* total under its guard and advances its loop counter
SplitLineEnabled == pc = "split" /\ i < Len(lines)
BuildRowEnabled == pc = "build" /\ b < Len(blocks)

\* The call is one thread of sequential code: as long as a step of it is
\* enabled, a step is taken.  For the two loop bodies weak fairness is
\* written out, with the guard of the action for its ENABLED.
Fairness ==
    /\ WF_vars(Call \/ OpenDocument \/ ReadPage \/ ExtractFails \/ CloseDocument
                 \/ SplitEntry \/ SplitReturn \/ Return)
    /\ ([]<><<SplitLine>>_vars \/ []<>~SplitLineEnabled)
    /\ ([]<><<BuildRow>>_vars \/ []<>~BuildRowEnabled)

SpecLive == Spec /\ Fairness

(***************************************************************************)
(* The ledger: create_transaction and delete_transaction (app/ledger.py)   *)
(* and the edit of the history page (TransactionHistoryPage._apply_edit).  *)
(***************************************************************************)
Accounts == {1, 2}
Descriptions == {"Tesco shop", "Rent"}

\* the integers a column of type INTEGER stores
MinInt == -(2 ^ (PennyBits - 1))
MaxInt == 2 ^ (PennyBits - 1) - 1
StorableInt(n) == n >= MinInt /\ n <= MaxInt

\* the amounts a caller may pass: small ones, the two ends of the storable
\* integers and the first integer that cannot be stored
Amounts == {MinInt, -1, 0, 1, MaxInt, MaxInt + 1}

\* the transaction ids a caller may pass: the stored ones and one never stored
TxIds == 1..(MaxTx + 1)

\* the primary key the database gives a new row of a table
NextId(table) == IF table = {} THEN 1 ELSE Max({r.id : r \in table}) + 1

\* tx.entries
EntriesOf(es, id) == {e \in es : e.transaction_id = id}

\* a balancing entry with the amount of the primary entry
SameAmount(amount_pennies) == amount_pennies

\* amount_pennies of the balancing entry create_transaction makes
BalancingAmount(amount_pennies) == -amount_pennies

\* a delete that leaves the entries behind
NoCascade(es, id) == es

\* cascade="all, delete-orphan": the entries that remain when the transaction
\* id is deleted
Cascade(es, id) == es \ EntriesOf(es, id)

\* the file of the behaviours of the ledger: none
NoFile == [exists |-> FALSE, suffix |-> DotPdf, raw |-> <<>>, damaged |-> 0]

InitLedger == InitFor(NoFile)

\* create_transaction(session, timestamp=..., description=description,
\*     primary_account_id=..., amount_pennies=..., balancing_account_id=...):
\* the callers pass two different accounts
create_transaction(description, primary_account_id, amount_pennies, balancing_account_id) ==
    LET tx == [id |-> NextId(transactions), description |-> description]
        e1 == [id |-> NextId(entries), transaction_id |-> tx.id,
               account_id |-> primary_account_id, amount_pennies |-> amount_pennies]
        e2 == [id |-> NextId(entries) + 1, transaction_id |-> tx.id,
               account_id |-> balancing_account_id,
               amount_pennies |-> BalancingAmount(amount_pennies)]
    IN  /\ NextId(transactions) <= MaxTx
        /\ IF StorableInt(e1.amount_pennies) /\ StorableInt(e2.amount_pennies)
           THEN /\ transactions' = transactions \cup {tx}
                /\ entries' = entries \cup {e1, e2}
                /\ ret' = [op |-> "create", out |-> Ok("Transaction")]
           ELSE \* session.commit() raises, nothing is stored
                /\ ret' = [op |-> "create", out |-> Raise("OverflowError", "Python int too large to convert to SQLite INTEGER")]
                /\ UNCHANGED <<transactions, entries>>

CreateTransaction ==
    /\ \E d \in Descriptions, p \in Accounts, q \in Accounts, a \in Amounts :
          p # q /\ create_transaction(d, p, a, q)
    /\ UNCHANGED <<pdfVars, appVars>>

delete_transaction(transaction_id) ==
    LET tx == {t \in transactions : t.id = transaction_id}
    IN  /\ IF tx = {}
           THEN /\ ret' = [op |-> "delete", out |-> Ok("False")]
                /\ UNCHANGED <<transactions, entries>>
           ELSE /\ transactions' = transactions \ tx
                /\ entries' = Cascade(entries, transaction_id)
                /\ ret' = [op |-> "delete", out |-> Ok("True")]

DeleteTransaction ==
    /\ \E transaction_id \in TxIds : delete_transaction(transaction_id)
    /\ UNCHANGED <<pdfVars, appVars>>

\* TransactionHistoryPage._apply_edit(tx_id, payload); e1 and e2 are the
\* first two of tx.entries, a relationship without order_by, of which the
\* order is the database's choice; the dialog passes two different accounts
_apply_edit(tx_id, description, primary_id, amount_pennies, balancing_id) ==
    LET tx == {t \in transactions : t.id = tx_id}
        list == EntriesOf(entries, tx_id)
    IN  /\ IF tx = {}
           THEN /\ ret' = [op |-> "edit", out |-> Raise("NoResultFound", "No row was found when one was required")]
                /\ UNCHANGED <<transactions, entries>>
           ELSE IF Cardinality(list) < 2
           THEN /\ ret' = [op |-> "edit", out |-> Raise("ValueError", "Transaction does not have two entries to edit.")]
                /\ UNCHANGED <<transactions, entries>>
           ELSE IF ~(StorableInt(amount_pennies) /\ StorableInt(-amount_pennies))
           THEN \* session.commit() raises, nothing is stored
                /\ ret' = [op |-> "edit", out |-> Raise("OverflowError", "Python int too large to convert to SQLite INTEGER")]
                /\ UNCHANGED <<transactions, entries>>
           ELSE \E e1 \in list, e2 \in list :
                   /\ e1 # e2
                   /\ transactions' = (transactions \ tx)
                          \cup {[id |-> tx_id, description |-> description]}
                   /\ entries' = (entries \ {e1, e2})
                          \cup {[e1 EXCEPT !.account_id = primary_id,
                                           !.amount_pennies = amount_pennies],
                                [e2 EXCEPT !.account_id = balancing_id,
                                           !.amount_pennies = -amount_pennies]}
                   /\ ret' = [op |-> "edit", out |-> Ok("None")]

ApplyEdit ==
    /\ \E tx_id \in TxIds, d \in Descriptions, p \in Accounts, q \in Accounts, a \in Amounts :
          p # q /\ _apply_edit(tx_id, d, p, a, q)
    /\ UNCHANGED <<pdfVars, appVars>>

NextLedger ==
    \/ CreateTransaction
    \/ DeleteTransaction
    \/ ApplyEdit

SpecLedger == InitLedger /\ [][NextLedger]_vars

(***************************************************************************)
(* The accounts: add_primary_account, add_balancing_account and            *)
(* close_account (app/accounts.py).                                        *)
(***************************************************************************)
\* a tuple of primary types that holds every type of the table
ALL_TYPES == <<"asset", "liability", "income", "expense", "adjustment">>

PRIMARY_TYPES == <<"asset", "liability">>
BALANCING_TYPES == <<"income", "expense", "adjustment">>

\* x in tuple
In(x, tuple) == \E k \in DOMAIN tuple : tuple[k] = x

\* the types a caller may pass: the five of the table, one in another case and
\* one the application does not know
AccountTypes == {"asset", "liability", "income", "expense", "adjustment", "Asset", "equity"}

\* the names a caller may pass
AccountNames == {"Cash", "Food"}

\* the account ids a caller may pass: the stored ones and one never stored
AccountIds == 1..(Cardinality(AccountNames) + 1)

\* Account(name=name, type=account_type) once stored
NewAccount(name, account_type, added_by) ==
    [id |-> NextId(accounts), name |-> name, type |-> account_type, is_active |-> TRUE,
     added_by |-> added_by]

\* session.add(account); session.commit(): the column name is unique
AddAndCommit(op, account) ==
    IF \E a \in accounts : a.name = account.name
    THEN /\ ret' = [op |-> op, out |-> Raise("IntegrityError", "UNIQUE constraint failed: accounts.name")]
         /\ UNCHANGED accounts
    ELSE /\ accounts' = accounts \cup {account}
         /\ ret' = [op |-> op, out |-> Ok("Account")]

add_primary_account(name, account_type) ==
    IF ~In(account_type, PRIMARY_TYPES)
    THEN /\ ret' = [op |-> "add_primary_account",
                    out |-> Raise("ValueError", "Primary accounts must be asset or liability")]
         /\ UNCHANGED accounts
    ELSE AddAndCommit("add_primary_account", NewAccount(name, account_type, "add_primary_account"))

AddPrimaryAccount ==
    /\ \E name \in AccountNames, account_type \in AccountTypes :
          add_primary_account(name, account_type)
    /\ UNCHANGED <<pdfVars, transactions, entries, csvVars, qtVars, tkVars>>

add_balancing_account(name, account_type) ==
    IF ~In(account_type, BALANCING_TYPES)
    THEN /\ ret' = [op |-> "add_balancing_account",
                    out |-> Raise("ValueError", "Balancing accounts must be income, expense, or adjustment")]
         /\ UNCHANGED accounts
    ELSE AddAndCommit("add_balancing_account", NewAccount(name, account_type, "add_balancing_account"))

AddBalancingAccount ==
    /\ \E name \in AccountNames, account_type \in AccountTypes :
          add_balancing_account(name, account_type)
    /\ UNCHANGED <<pdfVars, transactions, entries, csvVars, qtVars, tkVars>>

close_account(account_id) ==
    LET account == {a \in accounts : a.id = account_id}
    IN  IF account = {}
        THEN /\ ret' = [op |-> "close_account", out |-> Raise("ValueError", "Account not found")]
             /\ UNCHANGED accounts
        ELSE /\ accounts' = {IF a.id = account_id THEN [a EXCEPT !.is_active = FALSE] ELSE a :
                               a \in accounts}
             /\ ret' = [op |-> "close_account", out |-> Ok("None")]

CloseAccount ==
    /\ \E account_id \in AccountIds : close_account(account_id)
    /\ UNCHANGED <<pdfVars, transactions, entries, csvVars, qtVars, tkVars>>

NextAccounts ==
    \/ AddPrimaryAccount
    \/ AddBalancingAccount
    \/ CloseAccount

SpecAccounts == InitLedger /\ [][NextAccounts]_vars

(***************************************************************************)
(* The CSV importer: extract_transactions_from_csv                         *)
(* (app/importers/statement_csv.py).  The table pd.read_csv returns is a   *)
(* list of rows, each a function from the column names of the file to a    *)
(* cell; a cell is Optional: None is NaN (an empty cell), Some(text) a     *)
(* string (the columns are of dtype object).                               *)
(***************************************************************************)
IGNORE == "(ignore)"

\* the rows a file may hold, and the rows of the staging table
MaxRows == 2

\* "02/12/2025", "2025-12-03", "31/02/2025" and "soon"
DayFirstDate == <<"0", "2", "/", "1", "2", "/", "2", "0", "2", "5">>
IsoDate == <<"2", "0", "2", "5", "-", "1", "2", "-", "0", "3">>
NoSuchDay == <<"3", "1", "/", "0", "2", "/", "2", "0", "2", "5">>
Soon == <<"s", "o", "o", "n">>

\* "£1,000.00 " and "-0.01"
PoundAmount == <<"£", "1", ",", "0", "0", "0", ".", "0", "0", " ">>
MinusAmount == <<"-", "0", ".", "0", "1">>

\* " Tesco ", "Balance Brought", "Forward 7.66", "balance carried forward" and "Rent"
Tesco == <<" ", "T", "e", "s", "c", "o", " ">>
BalanceBrought == <<"B", "a", "l", "a", "n", "c", "e", " ", "B", "r", "o", "u", "g", "h", "t">>
ForwardOnly == <<"F", "o", "r", "w", "a", "r", "d", " ", "7", ".", "6", "6">>
BalanceCarriedForwardText ==
    <<"b", "a", "l", "a", "n", "c", "e", " ", "c", "a", "r", "r", "i", "e", "d", " ",
      "f", "o", "r", "w", "a", "r", "d">>
Rent == <<"R", "e", "n", "t">>

\* a row of the table
CsvRow(date, amount, payee, details) ==
    [Date |-> date, Amount |-> amount, Payee |-> payee, Details |-> details]

\* a payment of a large amount, a payment of a penny and a payment with an
\* empty date and an empty payee
LargePayment == CsvRow(Some(DayFirstDate), Some(PoundAmount), Some(Tesco), Some(Rent))
PennyPayment == CsvRow(Some(IsoDate), Some(MinusAmount), Some(Tesco), Some(Rent))
UndatedPayment == CsvRow(None, Some(MinusAmount), None, Some(Rent))

\* the rows of the files: the three payments, a row with a date that is no
\* date, one with a day that does not exist, a balance row in one column,
\* and a balance row whose marker spans the two text columns
CsvRows ==
    {LargePayment, PennyPayment, UndatedPayment,
     CsvRow(Some(Soon), None, Some(Tesco), None),
     CsvRow(Some(NoSuchDay), Some(MinusAmount), Some(Rent), Some(ForwardOnly)),
     CsvRow(Some(IsoDate), Some(MinusAmount), Some(Tesco), Some(BalanceCarriedForwardText)),
     CsvRow(Some(DayFirstDate), Some(MinusAmount), Some(BalanceBrought), Some(ForwardOnly))}

\* the mappings the caller may pass: date and amount are mapped to their
\* columns; an optional key is left out, mapped to "(ignore)", mapped to a
\* column of the file or mapped to a column the file has not
Absent == "(absent)"
MapKey(key, choice) == IF choice = Absent THEN <<>> ELSE key :> choice

Mappings ==
    {("date" :> "Date") @@ ("amount" :> "Amount") @@ MapKey("merchant", m)
        @@ MapKey("description", d) @@ MapKey("primary", a) @@ MapKey("balancing", a) :
       m \in {Absent, IGNORE, "Payee", "Missing"},
       d \in {Absent, IGNORE, "Details"},
       a \in {Absent, IGNORE}}

\* the arguments of the calls
CsvInputs == {[df |-> df, mapping |-> m] : df \in SeqsUpTo(CsvRows, MaxRows), m \in Mappings}

\* dict.get(key, default) and Series.get(key, default)
GetOr(d, key, default) == IF key \in DOMAIN d THEN d[key] ELSE default

\* sub in text
Contains(text, sub) ==
    \E p \in 0..(Len(text) - Len(sub)) : SubSeq(text, p + 1, p + Len(sub)) = sub

\* the days of month m of year y
DaysIn(m, y) ==
    IF m \in {4, 6, 9, 11} THEN 30
    ELSE IF m # 2 THEN 31
    ELSE IF y % 4 = 0 /\ (y % 100 # 0 \/ y % 400 = 0) THEN 29 ELSE 28

\* a date of the calendar, or NaT
DateOrNaT(d, m, y) ==
    IF m \in 1..12 /\ d >= 1 /\ d <= DaysIn(m, y) THEN Some([day |-> d, month |-> m, year |-> y])
    ELSE None

\* pd.to_datetime(raw_date, dayfirst=True, errors="coerce") for NaN, for
\* DD/MM/YYYY and YYYY-MM-DD and for a text that is no date: None is NaT
to_datetime(raw_date) ==
    IF raw_date = None THEN None
    ELSE LET t == Strip(raw_date[1])
         IN  IF /\ Len(t) = 10
                /\ \A j \in {1, 2, 4, 5, 7, 8, 9, 10} : IsDigit(t[j])
                /\ t[3] = "/" /\ t[6] = "/"
             THEN DateOrNaT(IntOf(SubSeq(t, 1, 2)), IntOf(SubSeq(t, 4, 5)), IntOf(SubSeq(t, 7, 10)))
             ELSE IF /\ Len(t) = 10
                     /\ \A j \in {1, 2, 3, 4, 6, 7, 9, 10} : IsDigit(t[j])
                     /\ t[5] = "-" /\ t[8] = "-"
             THEN DateOrNaT(IntOf(SubSeq(t, 9, 10)), IntOf(SubSeq(t, 6, 7)), IntOf(SubSeq(t, 1, 4)))
             ELSE None

\* dt.strftime("%d/%m/%Y")
strftime(dt) == Fmt(dt.day, 2) \o <<"/">> \o Fmt(dt.month, 2) \o <<"/">> \o Fmt(dt.year, 4)

\* out["date"]
OutDate(row, mapping) ==
    LET dt == to_datetime(GetOr(row, mapping["date"], Some(<<>>)))
    IN  IF dt = None THEN <<>> ELSE strftime(dt[1])

IsNotPoundOrComma(c) == c \notin {"£", ","}

\* out["amount"]
OutAmount(row, mapping) ==
    LET raw_amt == GetOr(row, mapping["amount"], Some(<<>>))
        amt_s == IF raw_amt = None THEN <<>> ELSE raw_amt[1]
    IN  Strip(SelectSeq(amt_s, IsNotPoundOrComma))

\* out[key] for the optional keys
OutOptional(row, mapping, key) ==
    LET col == GetOr(mapping, key, IGNORE)
    IN  IF col = IGNORE THEN <<>>
        ELSE LET v == GetOr(row, col, Some(<<>>))
             IN  IF v = None THEN <<>> ELSE Strip(v[1])

\* the dict out of one iteration
OutOf(row, mapping) ==
    [date |-> OutDate(row, mapping),
     amount |-> OutAmount(row, mapping),
     merchant |-> OutOptional(row, mapping, "merchant"),
     description |-> OutOptional(row, mapping, "description"),
     primary |-> OutOptional(row, mapping, "primary"),
     balancing |-> OutOptional(row, mapping, "balancing")]

BALANCE_BROUGHT_FORWARD ==
    <<"B", "A", "L", "A", "N", "C", "E", " ", "B", "R", "O", "U", "G", "H", "T", " ",
      "F", "O", "R", "W", "A", "R", "D">>
BALANCE_CARRIED_FORWARD ==
    <<"B", "A", "L", "A", "N", "C", "E", " ", "C", "A", "R", "R", "I", "E", "D", " ",
      "F", "O", "R", "W", "A", "R", "D">>

\* a test that also skips the rows without a date
IsBalanceOrUndatedRow(out) ==
    \/ out.date = <<>>
    \/ Contains(Upper(out.merchant \o <<" ">> \o out.description), BALANCE_BROUGHT_FORWARD)
    \/ Contains(Upper(out.merchant \o <<" ">> \o out.description), BALANCE_CARRIED_FORWARD)

\* the test that skips a balance row
IsBalanceRow(out) ==
    LET text_blob == Upper(out.merchant \o <<" ">> \o out.description)
    IN  Contains(text_blob, BALANCE_BROUGHT_FORWARD) \/ Contains(text_blob, BALANCE_CARRIED_FORWARD)

\* the loop over df.iterrows()
RECURSIVE RowsOut(_, _)
RowsOut(df, mapping) ==
    IF df = <<>> THEN <<>>
    ELSE LET out == OutOf(df[1], mapping)
             rest == RowsOut(Tail(df), mapping)
         IN  IF IsBalanceRow(out) THEN rest ELSE <<out>> \o rest

extract_transactions_from_csv(df, mapping) == RowsOut(df, mapping)

\* the call, on the table of the file and the mapping
ExtractCsv ==
    /\ rows_out = None
    /\ rows_out' = Some(extract_transactions_from_csv(csv.df, csv.mapping))
    /\ UNCHANGED <<pdfVars, ledgerVars, accounts, csv, qtVars, tkVars>>

\* before the call, for every table and mapping
InitCsvCall ==
    /\ InitPdf(NoFile)
    /\ InitTables
    /\ csv \in CsvInputs
    /\ rows_out = None
    /\ InitPage
    /\ NoWindow

NextCsv == ExtractCsv

SpecCsv == InitCsvCall /\ [][NextCsv]_vars

(***************************************************************************)
(* The bulk-import page of the Qt shell: choose_csv, choose_pdf, the       *)
(* balancing drop-downs of the preview and commit_to_db                    *)
(* (app/ui_qt/bulk_import.py).                                             *)
(***************************************************************************)
\* "Cash" and "Food"
CashName == <<"C", "a", "s", "h">>
FoodName == <<"F", "o", "o", "d">>

\* the accounts of the database the page works on: a primary and a
\* balancing account, made by add_primary_account and add_balancing_account
PageAccounts ==
    {[id |-> 1, name |-> CashName, type |-> "asset", is_active |-> TRUE,
      added_by |-> "add_primary_account"],
     [id |-> 2, name |-> FoodName, type |-> "expense", is_active |-> TRUE,
      added_by |-> "add_balancing_account"]}

\* get_primary_accounts and get_balancing_accounts, active_only=True
get_primary_accounts == {a \in accounts : In(a.type, PRIMARY_TYPES) /\ a.is_active}
get_balancing_accounts == {a \in accounts : In(a.type, BALANCING_TYPES) /\ a.is_active}

\* the files the user may choose
PageFiles == SeqsUpTo({LargePayment, PennyPayment, UndatedPayment}, MaxRows)

\* the mappings CsvMappingDialog gives: every key is mapped, the optional
\* ones to a column or to "(ignore)"
DialogMappings ==
    {("date" :> "Date") @@ ("amount" :> "Amount") @@ ("merchant" :> m)
        @@ ("description" :> "Details") @@ ("primary" :> IGNORE) @@ ("balancing" :> IGNORE) :
       m \in {IGNORE, "Payee"}}

\* the rows the preview shows at most
PreviewCap == 500

\* currentData() of the drop-down _make_balancing_combo builds
ComboData(current_name) ==
    LET named == {a \in get_balancing_accounts :
                     Lower(Strip(a.name)) = Lower(Strip(current_name))}
    IN  IF TruthyStr(current_name) /\ named # {}
        THEN Some((CHOOSE a \in named : TRUE).id)
        ELSE None

\* the row of the table _load_preview makes of a row
PreviewRow(row) ==
    [date |-> row.date, merchant |-> row.merchant, description |-> row.description,
     amount |-> row.amount, balancing |-> ComboData(row.balancing)]

_load_preview(rs) ==
    [r \in 1..Min({Len(rs), PreviewCap}) |-> PreviewRow(rs[r])]

\* truthiness of an Optional[int]
TruthyId(o) == o # None /\ o[1] # 0

\* a page that keeps its rows after a commit
NeverReset(ok) == FALSE

\* if ok > 0: self._reset_import_state()
ResetsAfter(ok) == ok > 0

\* _reset_import_state
_reset_import_state ==
    /\ self_rows' = <<>>
    /\ self_primary_account_id' = None
    /\ commit_btn' = FALSE
    /\ self_table' = <<>>

\* choose_csv: no file chosen; or the state is reset and then the headers
\* cannot be read or the dialog is cancelled; or the dialog gives a mapping
\* and a primary account and the file cannot be parsed; or its rows are
\* loaded
ChooseCsv ==
    /\ committing = None
    /\ \/ UNCHANGED qtVars
       \/ _reset_import_state /\ UNCHANGED committing
       \/ \E df \in PageFiles, mapping \in DialogMappings, primary \in get_primary_accounts :
             /\ self_primary_account_id' = Some(primary.id)
             /\ \/ /\ self_rows' = <<>>
                   /\ commit_btn' = FALSE
                   /\ self_table' = <<>>
                \/ LET rs == extract_transactions_from_csv(df, mapping)
                   IN  /\ self_table' = _load_preview(rs)
                       /\ self_rows' = rs
                       /\ commit_btn' = (Len(rs) > 0)
             /\ UNCHANGED committing
    /\ UNCHANGED <<pdfVars, ledgerVars, accounts, csvVars, tkVars>>

\* choose_pdf: no file chosen, or the state is reset
ChoosePdf ==
    /\ committing = None
    /\ \/ UNCHANGED qtVars
       \/ _reset_import_state /\ UNCHANGED committing
    /\ UNCHANGED <<pdfVars, ledgerVars, accounts, csvVars, tkVars>>

\* the user picks an account, or nothing, in the drop-down of row r
SelectBalancing ==
    /\ committing = None
    /\ \E r \in DOMAIN self_table, data \in {None} \cup {Some(a.id) : a \in get_balancing_accounts} :
          self_table' = [self_table EXCEPT ![r].balancing = data]
    /\ UNCHANGED <<self_rows, self_primary_account_id, commit_btn, committing>>
    /\ UNCHANGED <<pdfVars, ledgerVars, accounts, csvVars, tkVars>>

\* _build_description
_build_description(merchant, description) ==
    LET m == Strip(merchant)
        d == Strip(description)
    IN  IF TruthyStr(m) /\ TruthyStr(d) THEN m \o <<" ", "-", " ">> \o d
        ELSE IF TruthyStr(m) THEN m ELSE d

IsNotSpaceChar(c) == c # " "
IsAmountChar(c) == IsDigit(c) \/ c \in {",", ".", "-", "+"}
IsNotDot(c) == c # "."
CommaToDot(c) == IF c = "," THEN "." ELSE c

\* s.rfind(c)
RFind(s, c) == IF \E j \in DOMAIN s : s[j] = c THEN Max({j \in DOMAIN s : s[j] = c}) ELSE 0

\* the digits after the second decimal round the pennies up, by
\* to_integral_value's rounding to the even neighbour
RoundsUp(pennies, rest) ==
    /\ rest # <<>>
    /\ \/ IntOf(<<rest[1]>>) > 5
       \/ /\ rest[1] = "5"
          /\ (\E j \in 2..Len(rest) : rest[j] # "0") \/ pennies % 2 = 1

\* int((Decimal(s) * 100).to_integral_value()) for a text of a sign, digits
\* and a decimal point; None when Decimal(s) raises
PenniesOfDecimal(s) ==
    LET signed == s # <<>> /\ s[1] \in {"-", "+"}
        body == IF signed THEN Tail(s) ELSE s
        dots == {j \in DOMAIN body : body[j] = "."}
        whole == IF dots = {} THEN body ELSE SubSeq(body, 1, Min(dots) - 1)
        frac == IF dots = {} THEN <<>> ELSE From(body, Min(dots) + 1)
        two == SubSeq(frac \o <<"0", "0">>, 1, 2)
        pennies == IntOf(whole) * 100 + IntOf(two)
        rounded == IF RoundsUp(pennies, From(frac, 3)) THEN pennies + 1 ELSE pennies
    IN  IF /\ \A j \in DOMAIN whole : IsDigit(whole[j])
           /\ \A j \in DOMAIN frac : IsDigit(frac[j])
           /\ whole # <<>> \/ frac # <<>>
        THEN Some(IF signed /\ s[1] = "-" THEN -rounded ELSE rounded)
        ELSE None

\* _parse_amount_to_pennies
_parse_amount_to_pennies(amount_raw) ==
    LET s0 == Strip(amount_raw)
        negative == Len(s0) >= 1 /\ s0[1] = "(" /\ s0[Len(s0)] = ")"
        s1 == IF negative THEN Strip(SubSeq(s0, 2, Len(s0) - 1)) ELSE s0
        s2 == SelectSeq(SelectSeq(s1, IsNotSpaceChar), IsAmountChar)
        s3 == IF RFind(s2, ",") > 0 /\ RFind(s2, ".") > 0
              THEN IF RFind(s2, ",") > RFind(s2, ".")
                   THEN [j \in DOMAIN SelectSeq(s2, IsNotDot) |->
                            CommaToDot(SelectSeq(s2, IsNotDot)[j])]
                   ELSE SelectSeq(s2, IsNotComma)
              ELSE SelectSeq(s2, IsNotComma)
        s4 == IF negative /\ ~StartsWith(s3, <<"-">>) THEN <<"-">> \o s3 ELSE s3
    IN  IF ~TruthyStr(s0) THEN None
        ELSE IF ~TruthyStr(s2) THEN None
        ELSE PenniesOfDecimal(s4)

\* _parse_date_to_timestamp for the date-only texts DD/MM/YYYY, YYYY-MM-DD
\* and DD-MM-YYYY; None for an empty text and a text of no format
_parse_date_to_timestamp(date_raw) ==
    LET s == Strip(date_raw)
        shaped(digits, seps, sep) ==
            /\ Len(s) = 10
            /\ \A j \in digits : IsDigit(s[j])
            /\ \A j \in seps : s[j] = sep
    IN  IF ~TruthyStr(s) THEN None
        ELSE IF shaped({1, 2, 4, 5, 7, 8, 9, 10}, {3, 6}, "/") \/ shaped({1, 2, 4, 5, 7, 8, 9, 10}, {3, 6}, "-")
        THEN DateOrNaT(IntOf(SubSeq(s, 1, 2)), IntOf(SubSeq(s, 4, 5)), IntOf(SubSeq(s, 7, 10)))
        ELSE IF shaped({1, 2, 3, 4, 6, 7, 9, 10}, {5, 8}, "-")
        THEN DateOrNaT(IntOf(SubSeq(s, 9, 10)), IntOf(SubSeq(s, 6, 7)), IntOf(SubSeq(s, 1, 4)))
        ELSE None

\* commit_to_db up to the loop: nothing to commit, no primary account, the
\* user says no or the session cannot be opened; or the loop starts
CommitToDb ==
    /\ committing = None
    /\ IF Len(self_table) = 0 \/ ~TruthyId(self_primary_account_id)
       THEN UNCHANGED committing
       ELSE \/ UNCHANGED committing
            \/ /\ NextId(transactions) + Len(self_table) - 1 <= MaxTx
               /\ committing' = Some([r |-> 0, ok |-> 0, failed |-> FALSE])
    /\ UNCHANGED <<self_rows, self_primary_account_id, commit_btn, self_table>>
    /\ UNCHANGED <<pdfVars, ledgerVars, accounts, csvVars, tkVars>>

\* one iteration of the loop over the rows of the table: the row is skipped,
\* or create_transaction is called and returns or raises; in a session in
\* which a commit has failed, a later commit may raise PendingRollbackError
CommitRow ==
    /\ committing # None
    /\ committing[1].r < Len(self_table)
    /\ LET c == committing[1]
           row == self_table[c.r + 1]
           ts == _parse_date_to_timestamp(Strip(row.date))
           desc == _build_description(Strip(row.merchant), Strip(row.description))
           amount_pennies == _parse_amount_to_pennies(Strip(row.amount))
       IN  IF \/ ~TruthyId(row.balancing)
              \/ ~TruthyStr(desc) \/ amount_pennies = None \/ ts = None
           THEN /\ committing' = Some([c EXCEPT !.r = c.r + 1])
                /\ UNCHANGED ledgerVars
           ELSE \/ /\ create_transaction(desc, self_primary_account_id[1], amount_pennies[1],
                                         row.balancing[1])
                   /\ committing' = Some([r |-> c.r + 1,
                                          ok |-> IF ret'.out.raised THEN c.ok ELSE c.ok + 1,
                                          failed |-> c.failed \/ ret'.out.raised])
                \/ /\ c.failed
                   /\ ret' = [op |-> "create", out |-> Raise("PendingRollbackError", "This Session's transaction has been rolled back due to a previous exception during flush.")]
                   /\ committing' = Some([c EXCEPT !.r = c.r + 1])
                   /\ UNCHANGED <<transactions, entries>>
    /\ UNCHANGED <<self_rows, self_primary_account_id, commit_btn, self_table>>
    /\ UNCHANGED <<pdfVars, accounts, csvVars, tkVars>>

\* commit_to_db after the loop
CommitDone ==
    /\ committing # None
    /\ committing[1].r = Len(self_table)
    /\ committing' = None
    /\ IF ResetsAfter(committing[1].ok)
       THEN _reset_import_state
       ELSE UNCHANGED <<self_rows, self_primary_account_id, commit_btn, self_table>>
    /\ UNCHANGED <<pdfVars, ledgerVars, accounts, csvVars, tkVars>>

\* the page is opened on a database with a primary and a balancing account
InitPageOpened ==
    /\ InitPdf(NoFile)
    /\ transactions = {}
    /\ entries = {}
    /\ ret = [op |-> "none", out |-> Ok("None")]
    /\ accounts = PageAccounts
    /\ InitCsv
    /\ InitPage
    /\ NoWindow

NextPage ==
    \/ ChooseCsv
    \/ ChoosePdf
    \/ SelectBalancing
    \/ CommitToDb
    \/ CommitRow
    \/ CommitDone

SpecPage == InitPageOpened /\ [][NextPage]_vars

(***************************************************************************)
(* The staging table of the Tk shell: _add_row, _commit_edit with          *)
(* _validate_item, and _commit_ready_rows (app/ui/bulk_entry_window.py).   *)
(* A row of the tree holds its seven values and, as history, the number of *)
(* calls of create_transaction that wrote it to the ledger.                *)
(***************************************************************************)
\* the columns the user edits
EditColumns == {"date", "merchant", "description", "amount", "primary", "balancing"}

Date20260104 == <<"2", "0", "2", "6", "-", "0", "1", "-", "0", "4">>
TESCO == <<"T", "E", "S", "C", "O">>
Groceries == <<"G", "r", "o", "c", "e", "r", "i", "e", "s">>
CurrentAccount == <<"C", "u", "r", "r", "e", "n", "t", " ", "A", "c", "c", "o", "u", "n", "t">>
\* "-12.34": more pennies than the scaled INTEGER stores
Minus1234 == <<"-", "1", "2", ".", "3", "4">>
\* "0.01"
OnePenny == <<"0", ".", "0", "1">>

Draft == <<"Draft">>
Ready == <<"Ready">>
Committed == <<"Committed">>

\* self.tree.insert("", "end", values=(...))
TreeRow(date, merchant, description, amount, primary, balancing, status) ==
    [date |-> date, merchant |-> merchant, description |-> description,
     amount |-> amount, primary |-> primary, balancing |-> balancing,
     status |-> status, written |-> 0]

\* the dummy row of __init__
DummyRow == TreeRow(Date20260104, TESCO, Groceries, Minus1234, CurrentAccount, <<>>, Draft)

\* self.account_names
account_names == {a.name : a \in accounts}

\* what the user may enter in a cell: a text in an Entry, an account name in
\* a Combobox
CellValues(col) ==
    CASE col = "date" -> {Date20260104, <<>>}
      [] col = "merchant" -> {TESCO}
      [] col = "description" -> {Groceries}
      [] col = "amount" -> {OnePenny, Minus1234}
      [] col = "primary" -> {CashName}
      [] col = "balancing" -> account_names

\* datetime.strptime(s, "%Y-%m-%d") for a text of the shape YYYY-MM-DD, None
\* when it raises ValueError
strptime(s) ==
    IF /\ Len(s) = 10
       /\ \A j \in {1, 2, 3, 4, 6, 7, 9, 10} : IsDigit(s[j])
       /\ \A j \in {5, 8} : s[j] = "-"
    THEN DateOrNaT(IntOf(SubSeq(s, 9, 10)), IntOf(SubSeq(s, 6, 7)), IntOf(SubSeq(s, 1, 4)))
    ELSE None

IsNotPound(c) == c # "£"

\* int(round(float(s.replace("£", "")) * 100)) for a text of a sign, digits
\* and at most two decimals, None when float raises ValueError
float_pennies(s) == PenniesOfDecimal(SelectSeq(s, IsNotPound))

\* values[6] = ...: _validate_item writes the status whatever it was
Revalidated(row, status) == status

\* _validate_item
_validate_item(row) ==
    LET Err(cond, name) == IF cond THEN <<name>> ELSE <<>>
        errors ==
            Err(~TruthyStr(Strip(row.date)), "date")
         \o Err(~TruthyStr(Strip(row.merchant)), "merchant")
         \o Err(~TruthyStr(Strip(row.description)), "description")
         \o Err(~TruthyStr(Strip(row.amount)), "amount")
         \o Err(~TruthyStr(Strip(row.primary)), "primary")
         \o Err(~TruthyStr(Strip(row.balancing)), "balancing")
         \o Err(TruthyStr(Strip(row.date)) /\ strptime(Strip(row.date)) = None,
                "date format YYYY-MM-DD")
         \o Err(TruthyStr(Strip(row.amount)) /\ float_pennies(Strip(row.amount)) = None,
                "amount format")
         \o Err(/\ TruthyStr(Strip(row.primary))
                /\ TruthyStr(Strip(row.balancing))
                /\ Strip(row.primary) = Strip(row.balancing),
                "primary != balancing")
    IN  [row EXCEPT !.status =
            Revalidated(row, IF errors # <<>> THEN <<"Error: ">> \o errors ELSE Ready)]

\* _add_row
AddRow ==
    /\ batch = None
    /\ Len(tree) < MaxRows
    /\ tree' = Append(tree, _validate_item(TreeRow(<<>>, <<>>, <<>>, <<>>, <<>>, <<>>, Draft)))
    /\ UNCHANGED batch
    /\ UNCHANGED <<pdfVars, ledgerVars, accounts, csvVars, qtVars>>

\* _commit_edit for the editor _begin_edit opened on a cell
CommitEdit ==
    /\ batch = None
    /\ \E item \in DOMAIN tree, col \in EditColumns :
          \E new_value \in CellValues(col) :
             tree' = [tree EXCEPT ![item] = _validate_item([tree[item] EXCEPT ![col] = new_value])]
    /\ UNCHANGED batch
    /\ UNCHANGED <<pdfVars, ledgerVars, accounts, csvVars, qtVars>>

\* s.strip(" -")
IsSpaceOrDash(c) == c \in {" ", "-"}
StripSpaceDash(s) ==
    LET kept == {j \in DOMAIN s : ~IsSpaceOrDash(s[j])}
    IN  IF kept = {} THEN <<>> ELSE SubSeq(s, Min(kept), Max(kept))

\* f"{merchant.strip()} - {desc.strip()}".strip(" -")
RowDescription(row) ==
    StripSpaceDash(Strip(row.merchant) \o <<" ", "-", " ">> \o Strip(row.description))

\* select(Account.id).where(Account.name == name): the ids found
AccountIdsNamed(name) == {a.id : a \in {x \in accounts : x.name = name}}

\* the rows with status "Ready"
ReadyRows == {r \in DOMAIN tree : tree[r].status = Ready}

\* _commit_ready_rows up to the loop
CommitReadyRows ==
    /\ batch = None
    /\ IF tree = <<>>
       THEN UNCHANGED batch
       ELSE /\ NextId(transactions) + Cardinality(ReadyRows) - 1 <= MaxTx
            /\ batch' = Some([item |-> 1, failed |-> FALSE])
    /\ UNCHANGED tree
    /\ UNCHANGED <<pdfVars, ledgerVars, accounts, csvVars, qtVars>>

\* the row r gets the status of an exception
Errored(r, msg) == tree' = [tree EXCEPT ![r].status = <<"Error: ", msg>>]

\* one iteration of the loop of _commit_ready_rows: a row that is not
\* "Ready" is skipped; a "Ready" row is parsed, its accounts are looked up
\* and create_transaction is called; in a session in which a commit has
\* failed, a later statement may raise PendingRollbackError
CommitReadyRow ==
    /\ batch # None
    /\ batch[1].item <= Len(tree)
    /\ LET r == batch[1].item
           row == tree[r]
           tx_date == strptime(Strip(row.date))
           amount_pennies == float_pennies(Strip(row.amount))
           primary_id == AccountIdsNamed(Strip(row.primary))
           balancing_id == AccountIdsNamed(Strip(row.balancing))
           next(failed) == Some([item |-> r + 1, failed |-> failed])
       IN  IF row.status # Ready
           THEN /\ batch' = next(batch[1].failed)
                /\ UNCHANGED <<tree, ledgerVars>>
           ELSE IF tx_date = None \/ amount_pennies = None
           THEN /\ Errored(r, "ValueError")
                /\ batch' = next(batch[1].failed)
                /\ UNCHANGED ledgerVars
           ELSE \/ /\ batch[1].failed
                   /\ Errored(r, "PendingRollbackError")
                   /\ batch' = next(TRUE)
                   /\ UNCHANGED ledgerVars
                \/ IF primary_id = {} \/ balancing_id = {}
                   THEN /\ Errored(r, "No row was found when one was required")
                        /\ batch' = next(batch[1].failed)
                        /\ UNCHANGED ledgerVars
                   ELSE /\ create_transaction(RowDescription(row),
                                              CHOOSE p \in primary_id : TRUE,
                                              amount_pennies[1],
                                              CHOOSE q \in balancing_id : TRUE)
                        /\ IF ret'.out.raised
                           THEN Errored(r, ret'.out.type)
                           ELSE tree' = [tree EXCEPT ![r].status = Committed,
                                                     ![r].written = @ + 1]
                        /\ batch' = next(batch[1].failed \/ ret'.out.raised)
    /\ UNCHANGED <<pdfVars, accounts, csvVars, qtVars>>

\* _commit_ready_rows after the loop
CommitReadyDone ==
    /\ batch # None
    /\ batch[1].item > Len(tree)
    /\ batch' = None
    /\ UNCHANGED tree
    /\ UNCHANGED <<pdfVars, ledgerVars, accounts, csvVars, qtVars>>

\* BulkEntryWindow.__init__ on a database with a primary and a balancing
\* account
InitWindow ==
    /\ InitPdf(NoFile)
    /\ transactions = {}
    /\ entries = {}
    /\ ret = [op |-> "none", out |-> Ok("None")]
    /\ accounts = PageAccounts
    /\ InitCsv
    /\ InitPage
    /\ tree = <<DummyRow>>
    /\ batch = None

NextWindow ==
    \/ AddRow
    \/ CommitEdit
    \/ CommitReadyRows
    \/ CommitReadyRow
    \/ CommitReadyDone

SpecWindow == InitWindow /\ [][NextWindow]_vars

(***************************************************************************)
(* Properties of the PDF pipeline.                                         *)
(***************************************************************************)
\* the segmenter of the running call has returned
Segmented == pc \in {"build", "returned"}

\* the segmenter of the running call has started
Segmenting == pc = "split" \/ Segmented

\* " ".join(block.raw_lines)
FlatText(block) == JoinWith(block.raw_lines, <<" ">>)

\* the line has the shape of a date line but its month is none of the twelve
HasUnknownMonth(line) ==
    /\ DateLineMatches(line)
    /\ LET mon == Capitalize(SubSeq(line, 4, 6))
       IN  \A k \in DOMAIN months : mon # months[k]

\* "02/12/2025"
SecondOfDecember == <<"0", "2", "/", "1", "2", "/", "2", "0", "2", "5">>

\* C1: every record of the list extract_transactions_from_pdf returns (and of
\* the list rows while it is built) is a non-empty record with a non-empty
\* date and a non-empty amount.
C1_RecordsHaveDateAndAmount ==
    /\ Segmented =>
          \A k \in DOMAIN rows :
              /\ rows[k] # EmptyDict
              /\ Get(rows[k], "date") \notin {None, Some(<<>>)}
              /\ Get(rows[k], "amount") \notin {None, Some(<<>>)}
    /\ pc = "returned" => outcome = Some(Ok(rows))

\* a call has returned two records and dropped a block without an amount
C1_Witness ==
    /\ pc = "returned"
    /\ Len(outcome[1].value) >= 2
    /\ \E k \in DOMAIN blocks : MoneyTokens(FlatText(blocks[k])) = <<>>

\* the line is a date line: it has the shape of one and a month of the twelve
IsDateLine(line) == DateLineMatches(line) /\ ~HasUnknownMonth(line)

\* the last date line at or before line n (0: none)
NearestDateLine(n) ==
    LET dated == {j \in 1..n : IsDateLine(lines[j])}
    IN  IF dated # {} THEN Max(dated) ELSE 0

\* DD/MM/YYYY of a date line, written out from its digits and its month
DisplayDateOf(line) ==
    LET mon == Capitalize(SubSeq(line, 4, 6))
    IN  SubSeq(line, 1, 2) \o <<"/">>
        \o Fmt(CHOOSE k \in DOMAIN months : months[k] = mon, 2)
        \o <<"/", "2", "0">> \o SubSeq(line, 8, 9)

\* C2: every block the segmenter has emitted carries a non-empty date, the
\* formatted date of the nearest date line at or before the block's first
\* line; the two blocks of the example carry 02/12/2025.
C2_BlockDateIsNearestDateLine ==
    Segmenting =>
        /\ Len(firstLine) = Len(blocks)
        /\ \A k \in DOMAIN blocks :
              /\ blocks[k].date_display # <<>>
              /\ firstLine[k] \in 1..i
              /\ lines[firstLine[k]] = blocks[k].raw_lines[1]
              /\ LET nearest == NearestDateLine(firstLine[k])
                 IN  /\ nearest # 0
                     /\ blocks[k].date_display = DisplayDateOf(lines[nearest])
        /\ (Segmented /\ file.raw = <<DatedCredit, IndentedDebit>>) =>
              /\ Len(blocks) = 2
              /\ blocks[1].date_display = SecondOfDecember
              /\ blocks[2].date_display = SecondOfDecember

\* the segmenter has emitted a block of its own date, after a block of another
\* date, and a block that inherits its date
C2_Witness ==
    /\ Segmented
    /\ \E k \in DOMAIN blocks : ~DateLineMatches(blocks[k].raw_lines[1])
    /\ \E k \in DOMAIN blocks :
          /\ k > 1
          /\ DateLineMatches(blocks[k].raw_lines[1])
          /\ blocks[k].date_display # blocks[1].date_display

\* the first line of the block is a credit line: it begins with "CR ", or it
\* is a date line whose remainder after the date begins with "CR "
FirstLineIsCredit(block) ==
    LET first == block.raw_lines[1] IN
    \/ SubSeq(first, 1, 3) = CRSpace
    \/ /\ DateLineMatches(first)
       /\ SubSeq(first, RestStart(first), RestStart(first) + 2) = CRSpace

\* C3: the amount of every record is the cleaned amount token of its block
\* unchanged exactly when the block's first line is a credit line, and the
\* token prefixed with "-" in every other case.
C3_SignFromFirstLine ==
    Segmented =>
        \A k \in DOMAIN rows :
            LET block == blocks[rowBlock[k]]
                token == _extract_amount_and_balance(FlatText(block))[1]
            IN  /\ token # None
                /\ token[1][1] # "-"
                /\ FirstLineIsCredit(block) <=> rows[k].amount = token[1]
                /\ ~FirstLineIsCredit(block) <=> rows[k].amount = <<"-">> \o token[1]

\* a call has returned a dated credit, an undated credit and a debit
C3_Witness ==
    /\ pc = "returned"
    /\ \E k \in DOMAIN rows :
          /\ DateLineMatches(blocks[rowBlock[k]].raw_lines[1])
          /\ rows[k].amount[1] # "-"
    /\ \E k \in DOMAIN rows :
          /\ ~DateLineMatches(blocks[rowBlock[k]].raw_lines[1])
          /\ rows[k].amount[1] # "-"
    /\ \E k \in DOMAIN rows : rows[k].amount[1] = "-"

\* the block's flat text holds a money token
HasMoney(block) == MoneyTokens(FlatText(block)) # <<>>

\* the record the builder returns for the block is discarded as boilerplate
IsBoilerplateBlock(block) == IsBoilerplate(Description(block.raw_lines))

\* the token without its grouping commas
WithoutCommas(token) == SelectSeq(token, IsNotComma)

\* the amount token of the claim: the second-to-last money token of the flat
\* text, or the only one
AmountTokenOf(toks) == IF Len(toks) >= 2 THEN toks[Len(toks) - 1] ELSE toks[1]
AmountToken(block) == AmountTokenOf(MoneyTokens(FlatText(block)))

RECURSIVE RowsFrom(_)
RowsFrom(bs) ==
    IF bs = <<>> THEN <<>>
    ELSE LET row == _build_staging_row(Head(bs))
         IN  (IF KeepsRow(row) THEN <<row>> ELSE <<>>) \o RowsFrom(Tail(bs))

\* the call has raised the exception with the message m
FailedWith(m) == pc = "raised" /\ outcome[1].msg = m

\* C5: a block without a money token produces no record and does not abort
\* the run: the records are those of the input without the token-less blocks,
\* and the only exception raised once the lines are read is the one of a date
\* line with an unknown month.
C5_TokenlessBlockIsDropped ==
    /\ Segmented => rows = RowsFrom(SelectSeq(SubSeq(blocks, 1, b), HasMoney))
    /\ pc = "returned" => outcome = Some(Ok(RowsFrom(SelectSeq(blocks, HasMoney))))
    /\ (pc = "raised" /\ opens > 0 /\ ~FailedWith("text extraction failed")) =>
          /\ FailedWith("Unknown month token")
          /\ HasUnknownMonth(lines[i])

\* a call has returned the records of the blocks before and after a block
\* without a money token
C5_Witness ==
    /\ pc = "returned"
    /\ \E k \in DOMAIN blocks :
          /\ ~HasMoney(blocks[k])
          /\ \E r1, r2 \in DOMAIN rows : rowBlock[r1] < k /\ k < rowBlock[r2]

\* C6: no record comes from statement boilerplate: a boilerplate line is in no
\* block, and a block whose description is boilerplate yields no record.
C6_NoBoilerplateRecord ==
    Segmenting =>
        /\ \A k \in DOMAIN blocks : \A l \in DOMAIN blocks[k].raw_lines :
              ~IsBoilerplate(blocks[k].raw_lines[l])
        /\ current # None =>
              \A l \in DOMAIN current[1].raw_lines : ~IsBoilerplate(current[1].raw_lines[l])
        /\ Segmented =>
              /\ \A r \in DOMAIN rows :
                    /\ ~StartsWith(LettersOnlyUpper(rows[r].description), BALANCECARRIEDFORWARD)
                    /\ ~StartsWith(LettersOnlyUpper(rows[r].description), BALANCEBROUGHTFORWARD)
              /\ \A k \in 1..b :
                    IsBoilerplateBlock(blocks[k]) => \A r \in DOMAIN rows : rowBlock[r] # k

\* a call has returned a record from a document that has a boilerplate line
\* and a dated block whose description is boilerplate
C6_Witness ==
    /\ pc = "returned"
    /\ rows # <<>>
    /\ \E j \in DOMAIN lines : IsBoilerplate(lines[j])
    /\ \E k \in DOMAIN blocks : IsBoilerplateBlock(blocks[k]) /\ HasMoney(blocks[k])

\* C7 as stated: a call whose input has a line of the date-line shape with an
\* unknown month never gets past the segmenter.
C7_AnyDateShapedLineFails ==
    Segmented => \A j \in DOMAIN lines : ~HasUnknownMonth(lines[j])

\* C7 amended: a line of the date-line shape with an unknown month that is
\* not a boilerplate line makes the call fail with the unknown-month error
\* as soon as the segmenter reaches it, and no record is returned.
C7_DateAnchorWithUnknownMonthFails ==
    /\ Segmenting => \A j \in 1..i : ~(HasUnknownMonth(lines[j]) /\ ~IsBoilerplate(lines[j]))
    /\ FailedWith("Unknown month token") =>
          /\ outcome[1].raised
          /\ outcome[1].type = "ValueError"
          /\ HasUnknownMonth(lines[i]) /\ ~IsBoilerplate(lines[i])

\* a call has failed on an unknown month between a valid block and a further
\* line
C7_Witness ==
    /\ FailedWith("Unknown month token")
    /\ Len(blocks) >= 1
    /\ i < Len(lines)

\* the suffixes of the model that name a PDF file
PdfSuffixes == {DotPdf, DotPdfUpper}

\* C8: a call on a missing path fails with the file-not-found error, a call
\* on an existing path of another type with a different error, and in both
\* cases the document was never opened and no line was read.
C8_PreconditionsBeforeExtraction ==
    calls > 0 =>
        /\ ~file.exists =>
              /\ pc = "raised"
              /\ outcome[1].type = "FileNotFoundError"
              /\ opens = 0 /\ ~docOpen /\ page = 0 /\ lines = <<>>
        /\ (file.exists /\ file.suffix \notin PdfSuffixes) =>
              /\ pc = "raised"
              /\ outcome[1].type # "FileNotFoundError"
              /\ outcome[1].msg = "Not a PDF file"
              /\ opens = 0 /\ ~docOpen /\ page = 0 /\ lines = <<>>

\* a call has failed on an existing file that is no PDF and is not empty
C8_Witness ==
    /\ pc = "raised"
    /\ file.exists
    /\ file.suffix = DotCsv
    /\ file.raw # <<>>

\* C9: the records are in source order: each record is built from a block,
\* the blocks of successive records are successive in the input, and no
\* block gives two records.
C9_RecordsInSourceOrder ==
    Segmented =>
        /\ Len(rowBlock) = Len(rows)
        /\ \A r \in DOMAIN rows :
              /\ rowBlock[r] \in 1..b
              /\ rows[r] = _build_staging_row(blocks[rowBlock[r]])
        /\ \A k \in DOMAIN blocks : lines[firstLine[k]] = blocks[k].raw_lines[1]
        /\ \A r1, r2 \in DOMAIN rows :
              r1 < r2 <=> firstLine[rowBlock[r1]] < firstLine[rowBlock[r2]]
        /\ pc = "returned" => outcome = Some(Ok(rows))

\* a call has returned two records of which the blocks are not neighbours
C9_Witness ==
    /\ pc = "returned"
    /\ \E r \in DOMAIN rows : r > 1 /\ rowBlock[r] > rowBlock[r - 1] + 1

\* C10: the segmenter starts every run without a block, without a date and
\* without emitted blocks, and on the same lines it returns the blocks it
\* returned in every earlier call.
C10_SegmenterIsPure ==
    /\ (pc = "split" /\ i = 0) =>
          last_date_display = None /\ current = None /\ blocks = <<>>
    /\ Segmented =>
          \A h \in DOMAIN history : history[h] # None => blocks = history[h][1]

\* a second run has returned two blocks of lines that start with a line
\* without a date
C10_Witness ==
    /\ calls = 2
    /\ Segmented
    /\ history[1] # None
    /\ Len(blocks) >= 2
    /\ NO_DATE_START_RE(lines[1])

\* the position of the last character of the last match MONEY_RE.finditer
\* reports in s from position j on (0: no match)
RECURSIVE LastMoneyEnd(_, _)
LastMoneyEnd(s, j) ==
    IF j > Len(s) THEN 0
    ELSE LET e == MoneyEndAt(s, j)
         IN  IF e = 0 THEN LastMoneyEnd(s, j + 1)
             ELSE LET later == LastMoneyEnd(s, e)
                  IN  IF later = 0 THEN e - 1 ELSE later

\* a re-scan of the text for money tokens finds one at its very end
EndsWithMoney(text) == text # <<>> /\ LastMoneyEnd(text, 1) = Len(text)

\* C11 as stated: the description of every record the builder produces has no
\* money token at its end once the trailing amount and balance are stripped.
C11_NoMoneyAtEndOfDescription ==
    Segmented => \A r \in DOMAIN rows : ~EndsWithMoney(rows[r].description)

\* C12: in every record of the pipeline the merchant, the primary-account
\* hint and the balancing-account hint are the empty string.
C12_MerchantAndHintsEmpty ==
    /\ Segmented =>
          \A r \in DOMAIN rows :
              /\ rows[r].merchant = <<>>
              /\ rows[r].primary = <<>>
              /\ rows[r].balancing = <<>>
    /\ pc = "returned" =>
          \A r \in DOMAIN outcome[1].value :
              /\ Get(outcome[1].value[r], "merchant") = Some(<<>>)
              /\ Get(outcome[1].value[r], "primary") = Some(<<>>)
              /\ Get(outcome[1].value[r], "balancing") = Some(<<>>)

\* a call has returned a credit and a debit with different descriptions, one
\* of a block of two lines
C12_Witness ==
    /\ pc = "returned"
    /\ \E r1, r2 \in DOMAIN rows :
          /\ rows[r1].description # rows[r2].description
          /\ rows[r1].description # <<>>
          /\ rows[r1].amount[1] = "-"
          /\ rows[r2].amount[1] # "-"
          /\ Len(blocks[rowBlock[r1]].raw_lines) = 2

\* the file is an existing PDF document of which every page gives its text
\* and no extracted line has the date-line shape with an unknown month
WellFormedDocument ==
    /\ file.exists
    /\ file.suffix \in PdfSuffixes
    /\ file.damaged = 0
    /\ \A j \in DOMAIN file.raw : ~HasUnknownMonth(Strip(file.raw[j]))

\* C13: a call on an existing PDF document without a date-shaped line of an
\* unknown month never raises, and it terminates with a (possibly empty) list
\* of records: noise, blocks without money and boilerplate are only dropped.
C13_GracefulOnWellFormedInput ==
    /\ [](WellFormedDocument => pc # "raised")
    /\ (WellFormedDocument /\ calls = 1) ~> (pc = "returned" /\ outcome[1] = Ok(rows))

\* a call has returned the empty list for a document of a noise line, a block
\* without money and a boilerplate line
C13_Witness ==
    /\ pc = "returned"
    /\ WellFormedDocument
    /\ outcome = Some(Ok(<<>>))
    /\ Len(lines) = 3
    /\ ~IsBoilerplate(lines[1]) /\ ~DateLineMatches(lines[1]) /\ ~NO_DATE_START_RE(lines[1])
    /\ Len(blocks) = 1 /\ ~HasMoney(blocks[1])
    /\ IsBoilerplate(lines[3])

\* C14: within one call the document is opened at most once, it is open only
\* while its pages are read, every page of it is consumed before the
\* segmenter starts, and it is closed whenever the call has returned or
\* raised, by an unknown month or by a failing text extraction as well.
C14_DocumentOpenedOnceAndClosed ==
    /\ opens <= 1
    /\ docOpen => (pc = "read" /\ opens = 1)
    /\ pc \in {"returned", "raised"} => ~docOpen
    /\ (Segmenting \/ pc = "split_entry" \/ FailedWith("Unknown month token")) =>
          /\ opens = 1
          /\ page = NumPages(file)
          /\ lines = YieldedLines(file.raw)

\* a call has failed in the text extraction of the second page
C14_Witness ==
    /\ FailedWith("text extraction failed")
    /\ opens = 1
    /\ page = 1
    /\ lines # <<>>
    /\ NumPages(file) = 2

(***************************************************************************)
(* Properties of the ledger.                                               *)
(***************************************************************************)
\* the sum of amount_pennies over a set of entries
RECURSIVE SumOfAmounts(_)
SumOfAmounts(es) ==
    IF es = {} THEN 0
    ELSE LET e == CHOOSE x \in es : TRUE
         IN  e.amount_pennies + SumOfAmounts(es \ {e})

\* C15: every stored transaction has exactly two entries, and their amounts
\* sum to zero: one carries an amount and the other its negation; the
\* entries of a created transaction are the primary one and then the
\* balancing one.
C15_TransactionsAreBalanced ==
    /\ \A t \in transactions :
          LET es == EntriesOf(entries, t.id)
          IN  /\ Cardinality(es) = 2
              /\ SumOfAmounts(es) = 0
              /\ \E e1 \in es, e2 \in es :
                    e1.id < e2.id /\ e2.amount_pennies = 0 - e1.amount_pennies
    /\ \A t1 \in transactions, t2 \in transactions : t1.id = t2.id => t1 = t2
    /\ \A e1 \in entries, e2 \in entries : e1.id = e2.id => e1 = e2

\* the ledger holds two transactions of different non-zero amounts after an
\* edit that was stored
C15_Witness ==
    /\ ret = [op |-> "edit", out |-> Ok("None")]
    /\ Cardinality(transactions) = 2
    /\ \E e1 \in entries, e2 \in entries :
          /\ e1.transaction_id # e2.transaction_id
          /\ e1.amount_pennies > 0
          /\ e2.amount_pennies > 0
          /\ e1.account_id # e2.account_id

\* C16: delete_transaction on the id of a stored transaction returns True and
\* removes that transaction and every entry that refers to it, and nothing
\* else; on any other id it returns False and changes neither table.  No
\* entry is ever left without its transaction.
C16_DeleteRemovesTransactionAndEntries ==
    /\ [][\A id \in TxIds :
            delete_transaction(id) =>
                IF \E t \in transactions : t.id = id
                THEN /\ ret' = [op |-> "delete", out |-> Ok("True")]
                     /\ \A t \in transactions' : t.id # id
                     /\ \A e \in entries' : e.transaction_id # id
                     /\ transactions' = {t \in transactions : t.id # id}
                     /\ entries' = {e \in entries : e.transaction_id # id}
                ELSE /\ ret' = [op |-> "delete", out |-> Ok("False")]
                     /\ transactions' = transactions
                     /\ entries' = entries]_vars
    /\ [](\A e \in entries : \E t \in transactions : t.id = e.transaction_id)

\* a delete has returned True and left another transaction with its two
\* entries
C16_Witness ==
    /\ ret = [op |-> "delete", out |-> Ok("True")]
    /\ Cardinality(transactions) = 1
    /\ Cardinality(entries) = 2
    /\ \A t \in transactions : t.id = 2

(***************************************************************************)
(* Properties of the transitions of the segmenter.                         *)
(***************************************************************************)
\* the segmenter is about to consume a line
AtLine == pc = "split" /\ i < Len(lines)

\* the letters of the line, upper-cased, begin with one of the two markers
BoilerplateLine(line) ==
    LET letters == Upper(SelectSeq(line, IsLetter))
    IN  \/ StartsWith(letters, BALANCECARRIEDFORWARD)
        \/ StartsWith(letters, BALANCEBROUGHTFORWARD)

\* blocks once the open block, if any, is closed and emitted
BlocksWithOpenOneEmitted == IF current # None THEN blocks \o <<current[1]>> ELSE blocks

\* C17: on a boilerplate line, of the date-line shape or not, the open block
\* is closed and emitted, no block is open afterwards, the line opens no
\* block and is in no block, the date is kept and nothing is raised.
C17_BoilerplateRuleFirst ==
    [][(AtLine /\ BoilerplateLine(lines[i + 1])) =>
          /\ blocks' = BlocksWithOpenOneEmitted
          /\ current' = None
          /\ last_date_display' = last_date_display
          /\ pc' = "split" /\ outcome' = None
          /\ i' = i + 1]_vars

\* the segmenter has closed an open block on a boilerplate line of the
\* date-line shape
C17_Witness ==
    /\ pc = "split"
    /\ i = 2
    /\ BoilerplateLine(lines[2]) /\ DateLineMatches(lines[2])
    /\ current = None
    /\ Len(blocks) = 1
    /\ blocks[1].raw_lines = <<lines[1]>>

\* the text is DD/MM/YYYY with the day and the two-digit year of the line, a
\* month of 01..12 and a year of 2000..2099 that is 2000 plus the year of the
\* line
IsDisplayDateOf(text, line) ==
    /\ Len(text) = 10
    /\ text[3] = "/" /\ text[6] = "/"
    /\ \A k \in {1, 2, 4, 5, 7, 8, 9, 10} : IsDigit(text[k])
    /\ SubSeq(text, 1, 2) = SubSeq(line, 1, 2)
    /\ IntOf(SubSeq(text, 4, 5)) \in 1..12
    /\ months[IntOf(SubSeq(text, 4, 5))] = Capitalize(SubSeq(line, 4, 6))
    /\ IntOf(SubSeq(text, 7, 10)) = 2000 + IntOf(SubSeq(line, 8, 9))
    /\ IntOf(SubSeq(text, 7, 10)) \in 2000..2099

\* C18 as stated: on every line of the date-line shape that is not
\* boilerplate the open block is closed and emitted, the date is set and a
\* block is opened with the line as its only line.
C18_EveryDateShapedLineOpensBlock ==
    [][(AtLine /\ ~BoilerplateLine(lines[i + 1]) /\ DateLineMatches(lines[i + 1])) =>
          /\ blocks' = BlocksWithOpenOneEmitted
          /\ last_date_display' # None
          /\ current' # None
          /\ current'[1].raw_lines = <<lines[i + 1]>>]_vars

\* C18 amended: on a line of the date-line shape that is not boilerplate the
\* open block is closed and emitted; if the month is one of the twelve, the
\* date becomes the zero-padded DD/MM/YYYY of the line with YYYY = 2000 + YY
\* and a block of that date is opened with the line as its only line; if it
\* is not, the call fails with the unknown-month error.
C18_DateLineOpensBlock ==
    [][(AtLine /\ ~BoilerplateLine(lines[i + 1]) /\ DateLineMatches(lines[i + 1])) =>
          /\ blocks' = BlocksWithOpenOneEmitted
          /\ IF HasUnknownMonth(lines[i + 1])
             THEN pc' = "raised" /\ outcome'[1].msg = "Unknown month token"
             ELSE /\ pc' = "split"
                  /\ last_date_display' # None
                  /\ IsDisplayDateOf(last_date_display'[1], lines[i + 1])
                  /\ current' = Some([date_display |-> last_date_display'[1],
                                      raw_lines |-> <<lines[i + 1]>>])]_vars

\* the segmenter has closed the block of one date line on a second date line,
\* written in lower case, and opened the block of the second
C18_Witness ==
    /\ pc = "split"
    /\ i = 2
    /\ DateLineMatches(lines[1])
    /\ lines[2] = DatedNoMoney
    /\ blocks = <<[date_display |-> SecondOfDecember, raw_lines |-> <<lines[1]>>]>>
    /\ current = Some([date_display |-> <<"0", "4", "/", "1", "2", "/", "2", "0", "2", "5">>,
                       raw_lines |-> <<lines[2]>>])
    /\ last_date_display = Some(current[1].date_display)

\* the line begins with CR, DD, VIS, TFR or BP and a word boundary follows
StarterLine(line) ==
    \E t \in Starters :
        /\ StartsWith(line, t)
        /\ (Len(line) = Len(t) \/ ~IsWordChar(line[Len(t) + 1]))

\* C19: a line that is not boilerplate, has not the date-line shape and begins
\* with a transaction-type prefix opens a block of the last seen date, with
\* the line as its only line and after the open block is closed and emitted,
\* exactly when a date has been seen; before the first date line no block is
\* open, the line opens none and nothing changes.
C19_StarterOpensBlockIffDateSeen ==
    [][(AtLine /\ ~BoilerplateLine(lines[i + 1]) /\ ~DateLineMatches(lines[i + 1])
           /\ StarterLine(lines[i + 1])) =>
          /\ last_date_display' = last_date_display
          /\ pc' = "split"
          /\ IF last_date_display # None
             THEN /\ blocks' = BlocksWithOpenOneEmitted
                  /\ current' = Some([date_display |-> last_date_display[1],
                                      raw_lines |-> <<lines[i + 1]>>])
             ELSE /\ current = None
                  /\ current' = None
                  /\ blocks' = blocks]_vars

\* the segmenter has dropped a prefixed line before the first date line and
\* has opened, on a prefix followed by a hyphen, a block of the date seen
C19_Witness ==
    /\ pc = "split"
    /\ i = 3
    /\ StarterLine(lines[1])
    /\ DateLineMatches(lines[2])
    /\ lines[3] = HyphenCredit
    /\ Len(blocks) = 1
    /\ blocks[1].raw_lines = <<lines[2]>>
    /\ current = Some([date_display |-> blocks[1].date_display, raw_lines |-> <<lines[3]>>])

\* the lines of the block are consecutive lines of the document from line
\* number first on, and none of them is statement boilerplate
ConsecutiveLinesFrom(block, first) ==
    /\ first >= 1
    /\ first + Len(block.raw_lines) - 1 <= i
    /\ \A k \in 1..Len(block.raw_lines) :
          /\ block.raw_lines[k] = lines[first + k - 1]
          /\ ~BoilerplateLine(lines[first + k - 1])

\* C20: a line that is not boilerplate, has not the date-line shape and is no
\* prefixed line after a date was seen is appended unchanged as the last line
\* of the open block when a block is open, and otherwise is dropped with
\* nothing changed but the position in the document; so a block is a run of
\* consecutive lines without boilerplate, and a line after a boilerplate line
\* never joins the block before it.
C20_ContinuationAppendedOrDiscarded ==
    /\ [][(AtLine /\ ~BoilerplateLine(lines[i + 1]) /\ ~DateLineMatches(lines[i + 1])
             /\ ~(StarterLine(lines[i + 1]) /\ last_date_display # None)) =>
            /\ blocks' = blocks
            /\ last_date_display' = last_date_display
            /\ pc' = "split"
            /\ outcome' = outcome
            /\ IF current # None
               THEN current' = Some([date_display |-> current[1].date_display,
                                     raw_lines |-> Append(current[1].raw_lines, lines[i + 1])])
               ELSE current' = None]_vars
    /\ [](pc = "split" =>
            /\ Len(firstLine) = Len(blocks)
            /\ \A k \in 1..Len(blocks) : ConsecutiveLinesFrom(blocks[k], firstLine[k])
            /\ current # None => ConsecutiveLinesFrom(current[1], currentFirst))

\* a line before the first date line was dropped with no block open, and a
\* line after the date line was appended to the block that line opened
C20_Witness ==
    /\ pc = "split"
    /\ i = 3
    /\ ~BoilerplateLine(lines[1]) /\ ~DateLineMatches(lines[1]) /\ ~StarterLine(lines[1])
    /\ DateLineMatches(lines[2])
    /\ ~BoilerplateLine(lines[3]) /\ ~DateLineMatches(lines[3]) /\ ~StarterLine(lines[3])
    /\ blocks = <<>>
    /\ current # None
    /\ current[1].raw_lines = <<lines[2], lines[3]>>

\* line n of the document opens a block: it is no boilerplate line and is a
\* date line, or a prefixed line after some date line
OpensBlock(n) ==
    /\ ~BoilerplateLine(lines[n])
    /\ \/ IsDateLine(lines[n])
       \/ /\ ~DateLineMatches(lines[n])
          /\ StarterLine(lines[n])
          /\ NearestDateLine(n - 1) # 0

\* the lines among the first n that open a block
Opened(n) == {j \in 1..n : OpensBlock(j)}

\* the line numbers in the sequence grow strictly
StrictlyIncreasing(s) == \A j \in DOMAIN s, k \in DOMAIN s : j < k => s[j] < s[k]

\* C21: the blocks emitted so far, with the open one, are the blocks opened
\* by the lines read so far, each once and in the order of their opening
\* lines, and none is empty; a step of the segmenter emits nothing or the
\* open block, and when the segmenter has returned every opened block is in
\* blocks, the last one by the final flush.
C21_EveryOpenedBlockEmittedOnce ==
    /\ [](Segmenting =>
            /\ Len(firstLine) = Len(blocks)
            /\ StrictlyIncreasing(firstLine)
            /\ \A k \in DOMAIN blocks :
                  /\ blocks[k].raw_lines # <<>>
                  /\ firstLine[k] \in 1..Len(lines)
                  /\ blocks[k].raw_lines[1] = lines[firstLine[k]]
            /\ pc = "split" =>
                  /\ Range(firstLine) \cup (IF current # None THEN {currentFirst} ELSE {})
                        = Opened(i)
                  /\ current # None =>
                        /\ current[1].raw_lines # <<>>
                        /\ \A k \in DOMAIN firstLine : firstLine[k] < currentFirst
            /\ Segmented => Range(firstLine) = Opened(Len(lines)))
    /\ [][pc = "split" =>
            /\ blocks' \in {blocks, BlocksWithOpenOneEmitted}
            /\ pc' = "build" => blocks' = BlocksWithOpenOneEmitted]_vars

\* a block was emitted on a boilerplate line, the block opened after it by
\* the final flush, and the segmenter has returned the two in that order
C21_Witness ==
    /\ pc = "build"
    /\ Len(lines) = 3
    /\ BoilerplateLine(lines[2])
    /\ firstLine = <<1, 3>>
    /\ blocks = <<[date_display |-> blocks[1].date_display, raw_lines |-> <<lines[1]>>],
                  [date_display |-> blocks[2].date_display, raw_lines |-> <<lines[3]>>]>>

\* the display date of the last date line among the first n lines, if any
DateOfNearestDateLine(n) ==
    IF NearestDateLine(n) = 0 THEN None ELSE Some(DisplayDateOf(lines[NearestDateLine(n)]))

\* C22: while the segmenter runs, last_date_display is the date of the last
\* date line read (unset before the first); a step changes it only on a
\* non-boilerplate date line, never back to unset, and a prefixed line right
\* after a boilerplate line opens a block with that date.
C22_LastDateChangedOnlyByDateLine ==
    /\ [](pc = "split" => last_date_display = DateOfNearestDateLine(i))
    /\ [][pc = "split" =>
            /\ last_date_display # None => last_date_display' # None
            /\ last_date_display' # last_date_display =>
                  /\ i < Len(lines)
                  /\ ~BoilerplateLine(lines[i + 1])
                  /\ IsDateLine(lines[i + 1])
                  /\ last_date_display' = Some(DisplayDateOf(lines[i + 1]))
            /\ (i >= 1 /\ i < Len(lines) /\ BoilerplateLine(lines[i])
                  /\ last_date_display # None
                  /\ ~BoilerplateLine(lines[i + 1]) /\ ~DateLineMatches(lines[i + 1])
                  /\ StarterLine(lines[i + 1])) =>
                  current' = Some([date_display |-> last_date_display[1],
                                   raw_lines |-> <<lines[i + 1]>>])]_vars

\* after a date line and a boilerplate line, a prefixed line has opened a
\* block with the date of the date line
C22_Witness ==
    /\ pc = "split"
    /\ i = 3
    /\ IsDateLine(lines[1])
    /\ BoilerplateLine(lines[2])
    /\ ~DateLineMatches(lines[3]) /\ StarterLine(lines[3])
    /\ last_date_display = Some(DisplayDateOf(lines[1]))
    /\ current = Some([date_display |-> DisplayDateOf(lines[1]), raw_lines |-> <<lines[3]>>])

\* the text the description is cut from: for a block that starts with a line
\* of the date-line shape, what follows the ten characters of the date,
\* without the spaces around it, and the later lines; for any other block,
\* all its lines; joined by single spaces
DescriptionText(block) ==
    IF DateLineMatches(block.raw_lines[1])
    THEN Strip(JoinWith(<<Strip(From(block.raw_lines[1], 11))>> \o Tail(block.raw_lines),
                        <<" ">>))
    ELSE Strip(JoinWith(block.raw_lines, <<" ">>))

\* the text is made of at most n money tokens, each after white space
RECURSIVE IsMoneyTail(_, _)
IsMoneyTail(text, n) ==
    \/ text = <<>>
    \/ /\ n > 0
       /\ IsSpace(text[1])
       /\ \/ IsMoneyTail(Tail(text), n)
          \/ \E e \in Alt1Ends(text, 2) \cup Alt2Ends(text, 2) : IsMoneyTail(From(text, e), n - 1)

\* the text ends with white space and a money token
EndsWithSpacedMoney(text) ==
    \E p \in DOMAIN text :
        /\ IsSpace(text[p])
        /\ Len(text) + 1 \in Alt1Ends(text, p + 1) \cup Alt2Ends(text, p + 1)

\* C23: the description of every record is the text of its block (without
\* the date prefix when the first line has the date-line shape) less its
\* last money tokens, two of them or, if fewer end the text, all of them; a
\* type marker at the start of the text starts the description, and the
\* description of a dated block is cut from the remainder and does not
\* start with the date.
C23_DescriptionConstruction ==
    Segmented =>
        \A r \in DOMAIN rows :
            LET block == blocks[rowBlock[r]]
                text == DescriptionText(block)
                desc == rows[r].description
                cut == From(text, Len(desc) + 1)
            IN  /\ StartsWith(text, desc)
                /\ desc = Strip(desc)
                /\ IsMoneyTail(cut, 2)
                /\ IsMoneyTail(cut, 1) => ~EndsWithSpacedMoney(desc)
                /\ \A t \in Starters : StartsWith(text, t) => StartsWith(desc, t)
                /\ DateLineMatches(block.raw_lines[1]) =>
                      /\ Len(desc) <= Len(FlatText(block)) - 10
                      /\ ~StartsWith(desc, SubSeq(block.raw_lines[1], 1, 9))

\* a record of a dated block with a later line lost one money token, and a
\* record of a block without a date lost its amount and its balance
C23_Witness ==
    /\ pc = "returned"
    /\ \E r \in DOMAIN rows :
          LET block == blocks[rowBlock[r]]
          IN  /\ DateLineMatches(block.raw_lines[1])
              /\ Len(block.raw_lines) = 2
              /\ Len(rows[r].description) < Len(DescriptionText(block))
              /\ ~IsMoneyTail(From(DescriptionText(block), Len(rows[r].description) + 1), 0)
    /\ \E r \in DOMAIN rows :
          /\ ~DateLineMatches(blocks[rowBlock[r]].raw_lines[1])
          /\ rows[r].description = <<"V", "I", "S", " ", "T">>

\* C24: add_primary_account with a type other than asset and liability, and
\* add_balancing_account with a type other than income, expense and
\* adjustment, raise and leave the accounts as they were; with a type of
\* their own and a new name they store an account of that type; so every
\* account is of a type of the function that added it.
C24_AccountTypesAreChecked ==
    /\ [](\A a \in accounts :
            /\ a.added_by = "add_primary_account" => a.type \in {"asset", "liability"}
            /\ a.added_by = "add_balancing_account" =>
                  a.type \in {"income", "expense", "adjustment"})
    /\ [][\A name \in AccountNames, t \in AccountTypes :
            /\ add_primary_account(name, t) =>
                  IF t \in {"asset", "liability"}
                  THEN (\A a \in accounts : a.name # name) =>
                          \E a \in accounts' \ accounts :
                              a.name = name /\ a.type = t /\ accounts' = accounts \cup {a}
                  ELSE accounts' = accounts /\ ret'.out.raised /\ ret'.out.type = "ValueError"
            /\ add_balancing_account(name, t) =>
                  IF t \in {"income", "expense", "adjustment"}
                  THEN (\A a \in accounts : a.name # name) =>
                          \E a \in accounts' \ accounts :
                              a.name = name /\ a.type = t /\ accounts' = accounts \cup {a}
                  ELSE accounts' = accounts /\ ret'.out.raised /\ ret'.out.type = "ValueError"]_vars

\* a primary and a balancing account are stored, and the last call was
\* refused for its type
C24_Witness ==
    /\ \E a \in accounts : a.added_by = "add_primary_account"
    /\ \E a \in accounts : a.added_by = "add_balancing_account"
    /\ ret.op \in {"add_primary_account", "add_balancing_account"}
    /\ ret.out.raised
    /\ ret.out.type = "ValueError"

\* a block is open when line n is read: a line before it opened one and no
\* boilerplate line came between
OpenBefore(n) ==
    \E o \in Opened(n - 1) : \A m \in (o + 1)..(n - 1) : ~BoilerplateLine(lines[m])

\* line n is in no block: it is a boilerplate line, or a line that has not
\* the date-line shape, is read with no block open and opens none
InNoBlock(n) ==
    \/ BoilerplateLine(lines[n])
    \/ ~DateLineMatches(lines[n]) /\ ~OpenBefore(n) /\ ~OpensBlock(n)

\* the first n lines of the document without those that are in no block
RECURSIVE LinesInBlocks(_)
LinesInBlocks(n) ==
    IF n = 0 THEN <<>>
    ELSE IF InNoBlock(n) THEN LinesInBlocks(n - 1)
    ELSE Append(LinesInBlocks(n - 1), lines[n])

\* the lines of the blocks, one block after the other
RECURSIVE Concatenated(_)
Concatenated(bs) ==
    IF bs = <<>> THEN <<>> ELSE bs[1].raw_lines \o Concatenated(Tail(bs))

\* C27: the lines of the blocks emitted so far and of the open block, one
\* after the other, are the lines read so far, in their order and each
\* occurrence once, without the boilerplate lines and without the lines of
\* no date-line shape that were read with no block open and opened none; so
\* are the lines of the blocks the segmenter returns.
C27_LinesAreConserved ==
    /\ pc = "split" => Concatenated(BlocksWithOpenOneEmitted) = LinesInBlocks(i)
    /\ Segmented => Concatenated(blocks) = LinesInBlocks(Len(lines))

\* the segmenter has returned one block, of the first line; the boilerplate
\* line after it and the line after that one are in no block
C27_Witness ==
    /\ pc = "build"
    /\ Len(lines) = 3
    /\ BoilerplateLine(lines[2])
    /\ ~BoilerplateLine(lines[3]) /\ ~DateLineMatches(lines[3]) /\ ~StarterLine(lines[3])
    /\ Len(blocks) = 1
    /\ blocks[1].raw_lines = <<lines[1]>>
    /\ LinesInBlocks(3) = <<lines[1]>>

\* the first line of the block has the date-line shape or begins with a type
\* prefix, and no later line has the date-line shape, begins with a type
\* prefix or is boilerplate
WellFormedBlock(block) ==
    /\ block.raw_lines # <<>>
    /\ DateLineMatches(block.raw_lines[1]) \/ StarterLine(block.raw_lines[1])
    /\ \A k \in 2..Len(block.raw_lines) :
          /\ ~DateLineMatches(block.raw_lines[k])
          /\ ~StarterLine(block.raw_lines[k])
          /\ ~BoilerplateLine(block.raw_lines[k])

\* C28: while a block is open last_date_display is set; every emitted block,
\* and the open one, is well formed; and the date pattern matches the first
\* line of an emitted block exactly when a date line opened the block.
C28_BlocksAreWellFormed ==
    Segmenting =>
        /\ (pc = "split" /\ current # None) =>
              last_date_display # None /\ WellFormedBlock(current[1])
        /\ Len(firstLine) = Len(blocks)
        /\ \A k \in DOMAIN blocks :
              /\ WellFormedBlock(blocks[k])
              /\ DATE_LINE_RE(blocks[k].raw_lines[1]) # None
                    <=> (IsDateLine(lines[firstLine[k]]) /\ ~BoilerplateLine(lines[firstLine[k]]))
              /\ DATE_LINE_RE(blocks[k].raw_lines[1]) = None
                    <=> (~DateLineMatches(lines[firstLine[k]]) /\ StarterLine(lines[firstLine[k]]))

\* the segmenter has returned a block of a date line and a continuation and
\* a block of a prefixed line
C28_Witness ==
    /\ pc = "build"
    /\ Len(blocks) = 2
    /\ DateLineMatches(blocks[1].raw_lines[1])
    /\ Len(blocks[1].raw_lines) = 2
    /\ ~DateLineMatches(blocks[2].raw_lines[1])
    /\ StarterLine(blocks[2].raw_lines[1])

\* the line begins with CR and a word boundary follows: ^\s*CR\b on a line
\* without white space around it
StartsWithCRToken(line) ==
    /\ StartsWith(line, <<"C", "R">>)
    /\ (Len(line) = 2 \/ ~IsWordChar(line[3]))

\* C29 as stated: the record of every block that the no-date start rule
\* opened on a line whose start token is CR is a credit: its amount has no
\* leading minus.
C29_CreditTestAgreesWithStartToken ==
    Segmented =>
        \A r \in DOMAIN rows :
            LET first == blocks[rowBlock[r]].raw_lines[1]
            IN  (~DateLineMatches(first) /\ StartsWithCRToken(first)) =>
                    rows[r].amount[1] # "-"

\* the text of an optional field of a row: the cell of the column the key is
\* mapped to, without the white space around it; empty when the key is
\* unmapped or mapped to "(ignore)", the column is not in the file or the
\* cell is empty
FieldText(row, mapping, key) ==
    IF key \notin DOMAIN mapping THEN <<>>
    ELSE IF mapping[key] = "(ignore)" THEN <<>>
    ELSE IF mapping[key] \notin DOMAIN row THEN <<>>
    ELSE IF row[mapping[key]] = None THEN <<>>
    ELSE Strip(row[mapping[key]][1])

\* text holds the marker, letters compared without their case
HoldsIgnoringCase(text, marker) ==
    \E p \in 0..(Len(text) - Len(marker)) :
        \A k \in 1..Len(marker) : LowerChar(text[p + k]) = LowerChar(marker[k])

\* the merchant and description text of the row holds one of the two markers
IsBalanceText(row, mapping) ==
    LET text == FieldText(row, mapping, "merchant") \o <<" ">>
                \o FieldText(row, mapping, "description")
    IN  \/ HoldsIgnoringCase(text, BALANCE_BROUGHT_FORWARD)
        \/ HoldsIgnoringCase(text, BALANCE_CARRIED_FORWARD)

\* the numbers of the rows of the table that are no balance rows, in order
RECURSIVE KeptRows(_, _, _)
KeptRows(df, mapping, n) ==
    IF n > Len(df) THEN <<>>
    ELSE (IF IsBalanceText(df[n], mapping) THEN <<>> ELSE <<n>>) \o KeptRows(df, mapping, n + 1)

\* the date of the record of a row: DD/MM/YYYY of the two dates of the
\* files, empty for every other cell
ExpectedDate(cell) ==
    IF cell = Some(DayFirstDate) THEN DayFirstDate
    ELSE IF cell = Some(IsoDate) THEN <<"0", "3", "/", "1", "2", "/", "2", "0", "2", "5">>
    ELSE <<>>

\* C25: the list extract_transactions_from_csv returns holds one record for
\* every row that is no balance row, in the order of the rows; the text
\* fields of a record are those of its row, empty for a key that is unmapped
\* or ignored; and the date of a record is empty when the row's date cannot
\* be parsed.
C25_CsvRecordsPerRow ==
    rows_out # None =>
        LET kept == KeptRows(csv.df, csv.mapping, 1)
            out == rows_out[1]
        IN  /\ Len(out) = Len(kept)
            /\ \A n \in DOMAIN out :
                  LET row == csv.df[kept[n]]
                  IN  /\ DOMAIN out[n] = {"date", "amount", "merchant", "description",
                                          "primary", "balancing"}
                      /\ \A key \in {"merchant", "description", "primary", "balancing"} :
                            out[n][key] = FieldText(row, csv.mapping, key)
                      /\ out[n].date = ExpectedDate(row.Date)

\* the call has dropped a balance row whose marker spans merchant and
\* description and has kept, after it, a row without a date
C25_Witness ==
    /\ rows_out # None
    /\ Len(csv.df) = 2
    /\ Len(rows_out[1]) = 1
    /\ csv.df[1].Payee = Some(BalanceBrought)
    /\ csv.df[2].Date \in {None, Some(Soon), Some(NoSuchDay)}
    /\ rows_out[1][1].date = <<>>
    /\ "merchant" \in DOMAIN csv.mapping
    /\ "description" \in DOMAIN csv.mapping
    /\ csv.mapping["merchant"] = "Payee"
    /\ csv.mapping["description"] = "Details"

\* C26: when commit_to_db ends with at least one row committed, the rows and
\* the table are emptied, the primary account is unset and the commit
\* button is disabled; with an empty table no step creates a transaction or
\* starts the loop of commit_to_db, so a second commit_to_db creates nothing
\* until a file is loaded; and the commit button is enabled only while the
\* page holds at least one row of a loaded file.
C26_CommitResetsImportState ==
    /\ [](commit_btn => (Len(self_rows) > 0 /\ Len(self_table) > 0))
    /\ [](committing # None => Len(self_table) > 0)
    /\ [][(committing # None /\ committing' = None /\ committing[1].ok > 0) =>
            /\ self_rows' = <<>>
            /\ self_table' = <<>>
            /\ self_primary_account_id' = None
            /\ commit_btn' = FALSE]_vars
    /\ [][Len(self_table) = 0 =>
            /\ transactions' = transactions
            /\ entries' = entries
            /\ committing' = None]_vars
    /\ [][transactions' # transactions =>
            /\ committing # None
            /\ committing' # None
            /\ committing'[1].ok = committing[1].ok + 1]_vars

\* a commit_to_db has committed a row and skipped one, and the page is
\* reset: a second commit_to_db has nothing to commit
C26_Witness ==
    /\ committing = None
    /\ Cardinality(transactions) = 1
    /\ ret.op = "create"
    /\ self_rows = <<>>
    /\ self_table = <<>>
    /\ self_primary_account_id = None
    /\ ~commit_btn

\* C30: each row of the Tk staging table is written to the ledger at most
\* once: a row that has been committed is never passed to
\* create_transaction again, whatever rows are added, cells edited and
\* commits made.
C30_RowsWrittenAtMostOnce ==
    \A r \in DOMAIN tree : tree[r].written <= 1

====
